---------------------------- MODULE Spec2Model ----------------------------
(***************************************************************************)
(* Meo Mic PC application: the UDP transport receiver                      *)
(* (pc-app/meomic/audio_receiver.py, class UdpAudioReceiver) and the       *)
(* jitter-buffered playback renderer (pc-app/meomic/audio_output.py,       *)
(* class AudioOutput).                                                     *)
(*                                                                         *)
(* Conventions                                                             *)
(*  - Time is counted in milliseconds.  time.time() is the variable now.   *)
(*  - A datagram is a sequence of bytes (0..255); an address is the pair   *)
(*    <<ip, port>> that recvfrom returns.                                  *)
(*  - An unsigned 32-bit number is the pair <<hi, lo>> of its 16-bit       *)
(*    halves (value hi * 65536 + lo), because the model checker's integers *)
(*    are 32-bit signed; last_sequence = -1 ("unset") is the pair          *)
(*    <<-1, 65535>>, the halves of -1 with the sign kept in hi.            *)
(*  - A 16-bit sample is an integer in -32768..32767.                      *)
(***************************************************************************)
EXTENDS Integers, Sequences, FiniteSets, TLC

VARIABLES
    receiver,      \* the fields of the UdpAudioReceiver object
    rx_thread,     \* the receive thread: its position in _receive_loop
    now,           \* time.time(), in ms
    fired,         \* what the last step of the receive thread emitted:
                   \* callback invocations and datagrams sent, in order
    nrecv,         \* number of datagrams received so far (bounds the run)
    streak,        \* the sender's view of the current run of valid packets
                   \* from one address (an observer, not program state)
    stop_call,     \* the thread that calls UdpAudioReceiver.stop(): its
                   \* position and the time its join began
    recv_since     \* the time the pending recvfrom call was entered

rvars == <<receiver, rx_thread, now, fired, nrecv, streak, stop_call, recv_since>>

VARIABLES
    audio_output,  \* the fields of the AudioOutput object
    buffer_lock,   \* "free", or the thread that holds self.buffer_lock
    streams,       \* every sd.OutputStream created so far: device and state
    calls,         \* per calling thread: the AudioOutput method it is in,
                   \* its position and its locals
    outdata,       \* what the last pull callback wrote to the device
    count,         \* numbers of write calls, control calls and pulls so far
    written,       \* the samples appended since the buffer was last cleared
                   \* (an observer, not program state)
    pulled         \* whether a pull happened since the buffer was last
                   \* cleared (an observer)

avars == <<audio_output, buffer_lock, streams, calls, outdata, count, written, pulled>>

VARIABLES
    stats_call,    \* a thread that calls UdpAudioReceiver.get_stats(): its
                   \* position and the values it has read so far
    fifo           \* what became of every sample appended to the buffer
                   \* since the renderer was constructed (an observer)

svars == <<stats_call, fifo>>

vars == <<rvars, avars, svars>>

---------------------------------------------------------------------------
(* Bounds of the model *)

MaxRecv == 3          \* datagrams received in one run of SpecReceiver
MaxElapsed == 1000    \* ms of model time in one run of SpecReceiver
MaxRecvSilence == 2       \* datagrams received in one run of SpecSilence
MaxElapsedSilence == 6000 \* ms of model time in one run of SpecSilence
MaxRecvFaults == 1         \* datagrams received in one run of SpecFaults
MaxElapsedFaults == 2000   \* ms of one run of SpecFaults
MaxRecvAcks == 2           \* datagrams received in one run of SpecAcks
MaxElapsedAcks == 1000     \* ms of model time in one run of SpecAcks
MaxValidNoise == 1         \* valid packets at the start of one run of SpecNoise
MaxRecvNoise == 8          \* datagrams received in one run of SpecNoise
MaxElapsedNoise == 7000    \* ms of model time in one run of SpecNoise
MaxRecvShutdown == 2       \* datagrams received in one run of SpecShutdown
MaxElapsedShutdown == 3000 \* ms of model time in one run of SpecShutdown
MaxRecvStats == 2          \* datagrams received in one run of SpecStats
MaxElapsedStats == 1000    \* ms of model time in one run of SpecStats

MaxRecvApp == 2       \* datagrams received in one run of SpecApp
MaxElapsedApp == 1000 \* ms of model time in one run of SpecApp
MaxCalls == 4         \* calls of AudioOutput's methods and pulls in one run

---------------------------------------------------------------------------
(* Program constants *)

HEADER_SIZE == 8
LOSS_SANITY == 1000
RECV_TIMEOUT_MS == 1000
CLIENT_TIMEOUT_MS == 5000
ACK_INTERVAL_MS == 500
W16 == 2 ^ 16

MAGIC == <<87, 77>>      \* b'WM'

\* class PacketType(IntEnum)
AUDIO == 0
KEEPALIVE == 1
DISCONNECT == 2
ACK == 3

None == <<>>             \* Python's None for client_address

---------------------------------------------------------------------------
(* Unsigned 32-bit arithmetic on <<hi, lo>> pairs *)

Unset == <<-1, W16 - 1>>                 \* last_sequence = -1

\* (x + 1) & 0xFFFFFFFF
Inc32(x) ==
    IF x[2] = W16 - 1 THEN <<(x[1] + 1) % W16, 0>> ELSE <<x[1], x[2] + 1>>

\* (a - b) & 0xFFFFFFFF
Sub32(a, b) ==
    LET lo == a[2] - b[2]
        borrow == IF lo < 0 THEN 1 ELSE 0
    IN  <<(a[1] - b[1] - borrow + W16) % W16, (lo + W16) % W16>>

\* x < n for a small n (n <= 65536)
Less32(x, n) == x[1] = 0 /\ x[2] < n

\* struct.unpack('>I', b)[0] for four bytes b
UnpackU32(b) == <<b[1] * 256 + b[2], b[3] * 256 + b[4]>>

\* the four bytes of struct.pack('>I', x)
PackU32(x) == <<x[1] \div 256, x[1] % 256, x[2] \div 256, x[2] % 256>>

\* Python slice data[i:j] (0-based, end exclusive, clipped to the length)
Slice(data, i, j) ==
    LET e == IF j < Len(data) THEN j ELSE Len(data)
    IN  IF e <= i THEN <<>> ELSE [k \in 1..(e - i) |-> data[i + k]]

---------------------------------------------------------------------------
(* Inputs: what can arrive on the socket *)

A1 == <<"10.0.0.2", 50000>>
A2 == <<"10.0.0.3", 50001>>
Addrs == {A1, A2}

SeqInputs == { <<0, 0>>, <<0, 1>>, <<0, 1001>>, <<W16 - 1, W16 - 1>> }

Payloads == { <<>>, <<16, 39>> }

\* what a sender puts into a well-formed packet
ValidInputs ==
    [type : {AUDIO}, seq : SeqInputs, payload : Payloads]
    \cup [type : {KEEPALIVE, DISCONNECT, ACK, 7}, seq : SeqInputs, payload : {<<>>}]

\* the bytes of a well-formed packet as the sender builds it
Encode(p) == MAGIC \o <<1, p.type>> \o PackU32(p.seq) \o p.payload

ValidPackets == { Encode(p) : p \in ValidInputs }

Malformed ==
    { <<87, 77, 1, 0, 0, 0, 0>>,                   \* shorter than the header
      <<87, 78, 1, 0, 0, 0, 0, 3>>,                \* wrong magic, AUDIO type
      <<0, 77, 1, 2, 0, 0, 0, 0, 5, 6>> }          \* wrong magic, DISCONNECT type

Delays == {0}     \* ms a recvfrom call waits before a datagram arrives:
                  \* time passes in the 1 s receive timeouts

\* the process starts long after the epoch: now - 0 exceeds every timeout
StartTime == 2 * CLIENT_TIMEOUT_MS

---------------------------------------------------------------------------
(* UdpAudioReceiver *)

\* UdpAudioReceiver.__init__
ReceiverInit ==
    [ socket |-> "none",          \* none (None) | unbound | open | closed
      running |-> FALSE,
      client_address |-> None,
      last_packet_time |-> 0,
      last_ack_time |-> 0,
      packets_received |-> 0,
      last_sequence |-> Unset,
      packets_lost |-> 0,
      ack_sequence |-> <<0, 0>> ]

\* events the receiver emits
EvConnected(ip) == [ev |-> "client_connected", ip |-> ip]
EvDisconnected == [ev |-> "client_disconnected"]
EvAudio(bytes) == [ev |-> "audio_data", data |-> bytes]
EvSendto(pkt, addr) == [ev |-> "sendto", data |-> pkt, addr |-> addr]
\* an exception that leaves the method or the call that raised it
EvRaised(error) == [ev |-> "raised", error |-> error]

\* (variant: the outgoing counter is incremented without the 32-bit mask)
SendAck_NoWrap(r, addr) ==
    IF r.socket # "none"
    THEN LET ack_packet == MAGIC \o <<1, ACK>> \o PackU32(r.ack_sequence)
         IN  << [r EXCEPT !.ack_sequence =
                     <<@[1] + ((@[2] + 1) \div W16), (@[2] + 1) % W16>>],
                IF r.socket = "open" THEN <<EvSendto(ack_packet, addr)>> ELSE <<>> >>
    ELSE <<r, <<>>>>

\* _send_ack(addr) applied to receiver r: <<new receiver, events>>
SendAck(r, addr) ==
    IF r.socket # "none"
    THEN LET ack_packet == MAGIC \o <<1, ACK>> \o PackU32(r.ack_sequence)
         IN  << [r EXCEPT !.ack_sequence = Inc32(r.ack_sequence)],
                IF r.socket = "open" THEN <<EvSendto(ack_packet, addr)>> ELSE <<>> >>
    ELSE <<r, <<>>>>

\* (variant: the counters are reset when the connection is destroyed)
HandleDisconnect_ResetsCounters(r) ==
    IF r.client_address # None
    THEN << [r EXCEPT !.client_address = None,
                      !.packets_received = 0,
                      !.packets_lost = 0], <<EvDisconnected>> >>
    ELSE <<r, <<>>>>

\* _handle_disconnect applied to receiver r: <<new receiver, events>>
HandleDisconnect(r) ==
    IF r.client_address # None
    THEN << [r EXCEPT !.client_address = None], <<EvDisconnected>> >>
    ELSE <<r, <<>>>>

\* (variant: a connection that is replaced is first destroyed, with its
\* client-disconnected event)
TrackClient_DisconnectsFirst(r, addr) ==
    IF r.client_address # addr
    THEN << [r EXCEPT !.client_address = addr,
                      !.last_sequence = Unset,
                      !.packets_lost = 0,
                      !.packets_received = 0],
            HandleDisconnect(r)[2] \o <<EvConnected(addr[1])>> >>
    ELSE <<r, <<>>>>

\* (variant: a new connection keeps the previous connection's loss counter)
TrackClient_KeepsLoss(r, addr) ==
    IF r.client_address # addr
    THEN << [r EXCEPT !.client_address = addr,
                      !.last_sequence = Unset,
                      !.packets_received = 0],
            <<EvConnected(addr[1])>> >>
    ELSE <<r, <<>>>>

\* lines 120-128: track new client connection
TrackClient(r, addr) ==
    IF r.client_address # addr
    THEN << [r EXCEPT !.client_address = addr,
                      !.last_sequence = Unset,
                      !.packets_lost = 0,
                      !.packets_received = 0],
            <<EvConnected(addr[1])>> >>
    ELSE <<r, <<>>>>

\* (variant: expected is last_sequence itself, the + 1 forgotten)
TrackLoss_NoIncrement(r, sequence) ==
    LET expected == r.last_sequence
        lost == Sub32(sequence, expected)
        counted == r.last_sequence[1] >= 0 /\ sequence # expected
                   /\ Less32(lost, LOSS_SANITY)
    IN  [r EXCEPT !.packets_lost = IF counted THEN @ + lost[2] ELSE @,
                  !.last_sequence = sequence]

\* (variant: the sanity threshold is 100 instead of 1000)
TrackLoss_LowThreshold(r, sequence) ==
    LET expected == Inc32(r.last_sequence)
        lost == Sub32(sequence, expected)
        counted == r.last_sequence[1] >= 0 /\ sequence # expected
                   /\ Less32(lost, 100)
    IN  [r EXCEPT !.packets_lost = IF counted THEN @ + lost[2] ELSE @,
                  !.last_sequence = sequence]

\* (variant: the sanity check accepts a gap of exactly 1000)
TrackLoss_InclusiveThreshold(r, sequence) ==
    LET expected == Inc32(r.last_sequence)
        lost == Sub32(sequence, expected)
        counted == r.last_sequence[1] >= 0 /\ sequence # expected
                   /\ Less32(lost, LOSS_SANITY + 1)
    IN  [r EXCEPT !.packets_lost = IF counted THEN @ + lost[2] ELSE @,
                  !.last_sequence = sequence]

\* lines 133-140: track packet loss
TrackLoss(r, sequence) ==
    LET expected == Inc32(r.last_sequence)
        lost == Sub32(sequence, expected)
        counted == r.last_sequence[1] >= 0 /\ sequence # expected
                   /\ Less32(lost, LOSS_SANITY)
    IN  [r EXCEPT !.packets_lost = IF counted THEN @ + lost[2] ELSE @,
                  !.last_sequence = sequence]

\* (variant: a DISCONNECT destroys the connection only when it comes from
\* the address the connection had before the packet)
Dispatch_KnownSenderOnly(r, packet_type, data, addr, t) ==
    IF packet_type = AUDIO
    THEN LET audio_data == Slice(data, HEADER_SIZE, Len(data))
             e1 == IF audio_data # <<>> THEN <<EvAudio(audio_data)>> ELSE <<>>
         IN  IF t - r.last_ack_time > ACK_INTERVAL_MS
             THEN LET a == SendAck(r, addr)
                  IN  << [a[1] EXCEPT !.last_ack_time = t], e1 \o a[2] >>
             ELSE <<r, e1>>
    ELSE IF packet_type = KEEPALIVE THEN SendAck(r, addr)
    ELSE IF packet_type = DISCONNECT /\ r.packets_received > 1 THEN HandleDisconnect(r)
    ELSE <<r, <<>>>>

\* (variant: the sink gets the whole datagram, header included)
Dispatch_WholeDatagram(r, packet_type, data, addr, t) ==
    IF packet_type = AUDIO
    THEN LET audio_data == data
             e1 == IF audio_data # <<>> THEN <<EvAudio(audio_data)>> ELSE <<>>
         IN  IF t - r.last_ack_time > ACK_INTERVAL_MS
             THEN LET a == SendAck(r, addr)
                  IN  << [a[1] EXCEPT !.last_ack_time = t], e1 \o a[2] >>
             ELSE <<r, e1>>
    ELSE IF packet_type = KEEPALIVE THEN SendAck(r, addr)
    ELSE IF packet_type = DISCONNECT THEN HandleDisconnect(r)
    ELSE <<r, <<>>>>

\* lines 142-159: handle by packet type
Dispatch(r, packet_type, data, addr, t) ==
    IF packet_type = AUDIO
    THEN LET audio_data == Slice(data, HEADER_SIZE, Len(data))
             e1 == IF audio_data # <<>> THEN <<EvAudio(audio_data)>> ELSE <<>>
         IN  IF t - r.last_ack_time > ACK_INTERVAL_MS
             THEN LET a == SendAck(r, addr)
                  IN  << [a[1] EXCEPT !.last_ack_time = t], e1 \o a[2] >>
             ELSE <<r, e1>>
    ELSE IF packet_type = KEEPALIVE THEN SendAck(r, addr)
    ELSE IF packet_type = DISCONNECT THEN HandleDisconnect(r)
    ELSE <<r, <<>>>>

\* (variant: only the first magic byte is compared)
HandlePacket_HalfMagic(r, data, addr, t) ==
    IF Len(data) < HEADER_SIZE THEN <<r, <<>>>>
    ELSE IF Slice(data, 0, 1) # <<MAGIC[1]>> THEN <<r, <<>>>>
    ELSE LET packet_type == data[4]
             sequence == UnpackU32(Slice(data, 4, 8))
             c == TrackClient(r, addr)
             r1 == [c[1] EXCEPT !.last_packet_time = t,
                                !.packets_received = @ + 1]
             r2 == TrackLoss(r1, sequence)
             d == Dispatch(r2, packet_type, data, addr, t)
         IN  <<d[1], c[2] \o d[2]>>

\* _handle_packet(data, addr) at time t applied to receiver r:
\* <<new receiver, events>>
HandlePacket(r, data, addr, t) ==
    IF Len(data) < HEADER_SIZE THEN <<r, <<>>>>
    ELSE IF Slice(data, 0, 2) # MAGIC THEN <<r, <<>>>>
    ELSE LET packet_type == data[4]
             sequence == UnpackU32(Slice(data, 4, 8))
             c == TrackClient(r, addr)
             r1 == [c[1] EXCEPT !.last_packet_time = t,
                                !.packets_received = @ + 1]
             r2 == TrackLoss(r1, sequence)
             d == Dispatch(r2, packet_type, data, addr, t)
         IN  <<d[1], c[2] \o d[2]>>

---------------------------------------------------------------------------
(* The receive thread: _receive_loop *)

\* line 92: while self.running
LoopTest ==
    /\ rx_thread = "loop"
    /\ rx_thread' = IF receiver.running THEN "recv" ELSE "done"
    /\ fired' = <<>>
    /\ UNCHANGED <<receiver, now, nrecv, streak, stop_call, recv_since>>

\* lines 94-95: recvfrom returns the datagram data from addr after waiting
\* d ms, and _handle_packet(data, addr) runs
PacketArrives(data, addr, d, maxRecv, maxElapsed) ==
    /\ rx_thread = "recv"
    /\ receiver.socket = "open"
    /\ nrecv < maxRecv
    /\ now + d - StartTime <= maxElapsed
    /\ now' = now + d
    /\ LET h == HandlePacket(receiver, data, addr, now')
       IN  /\ receiver' = h[1]
           /\ fired' = h[2]
    /\ rx_thread' = "loop"
    /\ nrecv' = nrecv + 1
    /\ UNCHANGED <<stop_call, recv_since>>

\* the observer: a run is the valid packets received from one address with
\* no valid packet from another address in between; it is gapless while
\* every packet's sequence is the previous one plus 1 modulo 2^32
NoRun == [addr |-> None, seq |-> Unset, gapless |-> FALSE, n |-> 0]

Observe(p, addr) ==
    IF streak.addr # addr
    THEN [addr |-> addr, seq |-> p.seq, gapless |-> TRUE, n |-> 1]
    ELSE [addr |-> addr, seq |-> p.seq,
          gapless |-> streak.gapless /\ p.seq = Inc32(streak.seq),
          n |-> streak.n + 1]

ReceiveValid(maxRecv, maxElapsed) ==
    \E p \in ValidInputs, addr \in Addrs, d \in Delays :
        /\ PacketArrives(Encode(p), addr, d, maxRecv, maxElapsed)
        /\ streak' = Observe(p, addr)

ReceiveMalformed(maxRecv, maxElapsed) ==
    \E data \in Malformed, addr \in Addrs, d \in Delays :
        /\ PacketArrives(data, addr, d, maxRecv, maxElapsed)
        /\ streak' = streak

\* the ms a recvfrom call waits before a datagram of noise arrives: just
\* less than the receive timeout
NoiseDelays == {RECV_TIMEOUT_MS - 1}

\* lines 94-95 and 108-114: a datagram that is too short or has a wrong
\* magic arrives before the receive timeout expires
ReceiveNoise(maxRecv, maxElapsed) ==
    \E data \in Malformed, addr \in Addrs, d \in NoiseDelays :
        /\ PacketArrives(data, addr, d, maxRecv, maxElapsed)
        /\ streak' = streak

\* (variant: the silence test does not ask whether a connection exists, and
\* invokes the callback itself)
OnTimeout_NoConnectionTest(r, t) ==
    IF t - r.last_packet_time > CLIENT_TIMEOUT_MS
    THEN << [r EXCEPT !.client_address = None], <<EvDisconnected>> >>
    ELSE <<r, <<>>>>

\* (variant: the silence test is >= 5 s instead of > 5 s)
OnTimeout_Inclusive(r, t) ==
    IF r.client_address # None /\ t - r.last_packet_time >= CLIENT_TIMEOUT_MS
    THEN HandleDisconnect(r)
    ELSE <<r, <<>>>>

\* lines 98-99 at time t applied to receiver r: <<new receiver, events>>
OnTimeout(r, t) ==
    IF r.client_address # None /\ t - r.last_packet_time > CLIENT_TIMEOUT_MS
    THEN HandleDisconnect(r)
    ELSE <<r, <<>>>>

\* lines 96-99: recvfrom raises socket.timeout after the 1 s timeout
RecvTimeout(maxElapsed) ==
    /\ rx_thread = "recv"
    /\ receiver.socket = "open"
    /\ now + RECV_TIMEOUT_MS - StartTime <= maxElapsed
    /\ now' = now + RECV_TIMEOUT_MS
    /\ LET h == OnTimeout(receiver, now')
       IN  /\ receiver' = h[1]
           /\ fired' = h[2]
    /\ rx_thread' = "loop"
    /\ UNCHANGED <<nrecv, streak, stop_call, recv_since>>

---------------------------------------------------------------------------
(* UdpAudioReceiver.start(), called by the application's main thread *)

\* start(), lines 63-78, the bind succeeding
Start ==
    /\ IF receiver.running
       THEN UNCHANGED <<receiver, rx_thread>>
       ELSE /\ receiver' = [receiver EXCEPT !.socket = "open", !.running = TRUE]
            /\ rx_thread' = "loop"
    /\ UNCHANGED <<now, fired, nrecv, streak, stop_call, recv_since>>

\* (variant: running is set before the bind)
StartBindFails_RunningSet ==
    /\ ~receiver.running
    /\ receiver' = [receiver EXCEPT !.socket = "unbound", !.running = TRUE]
    /\ fired' = <<EvRaised("OSError")>>
    /\ UNCHANGED <<rx_thread, now, nrecv, streak, stop_call, recv_since>>

\* start(), lines 63-72, the bind failing: the socket made at line 66 stays
\* in self.socket, unbound; bind raises OSError, nothing in start() catches
\* it, and lines 73-78 do not run
StartBindFails ==
    /\ ~receiver.running
    /\ receiver' = [receiver EXCEPT !.socket = "unbound"]
    /\ fired' = <<EvRaised("OSError")>>
    /\ UNCHANGED <<rx_thread, now, nrecv, streak, stop_call, recv_since>>

---------------------------------------------------------------------------
(* UdpAudioReceiver.stop() and the receive thread, step by step and in     *)
(* time.  A step of the receive loop that does not block takes no time;    *)
(* a recvfrom call blocks for at most the 1 s socket timeout; a packet     *)
(* handler runs the application's callbacks and takes as long as they do;  *)
(* join(timeout=2.0) blocks until the thread has ended or 2 s have passed. *)

JOIN_TIMEOUT_MS == 2000    \* line 84: join(timeout=2.0)
\* the model's time passes in steps of the receive timeout
TickMs == RECV_TIMEOUT_MS

NotStopping == [pc |-> "idle", since |-> 0]

\* stop(), lines 82-84: the flag is cleared and the join begins; there is
\* no thread to join before start()
ReceiverStop ==
    /\ stop_call.pc = "idle"
    /\ receiver' = [receiver EXCEPT !.running = FALSE]
    /\ stop_call' = IF rx_thread = "none"
                    THEN [pc |-> "close", since |-> now]
                    ELSE [pc |-> "join", since |-> now]
    /\ UNCHANGED <<rx_thread, now, fired, nrecv, streak, recv_since>>

\* line 84: join returns because the thread has ended
ReceiverJoined ==
    /\ stop_call.pc = "join"
    /\ rx_thread = "done"
    /\ stop_call' = [stop_call EXCEPT !.pc = "close"]
    /\ UNCHANGED <<receiver, rx_thread, now, fired, nrecv, streak, recv_since>>

\* line 84: join returns because 2 s have passed; the thread is still alive
ReceiverJoinTimeout ==
    /\ stop_call.pc = "join"
    /\ rx_thread # "done"
    /\ now - stop_call.since >= JOIN_TIMEOUT_MS
    /\ stop_call' = [stop_call EXCEPT !.pc = "close"]
    /\ UNCHANGED <<receiver, rx_thread, now, fired, nrecv, streak, recv_since>>

\* lines 85-86: self.socket.close(), when there is a socket
ReceiverClose ==
    /\ stop_call.pc = "close"
    /\ IF receiver.socket # "none"
       THEN /\ receiver' = [receiver EXCEPT !.socket = "closed"]
            /\ stop_call' = [stop_call EXCEPT !.pc = "forget"]
       ELSE /\ stop_call' = NotStopping
            /\ UNCHANGED receiver
    /\ UNCHANGED <<rx_thread, now, fired, nrecv, streak, recv_since>>

\* lines 87-88: self.socket = None, and stop() returns
ReceiverForget ==
    /\ stop_call.pc = "forget"
    /\ receiver' = [receiver EXCEPT !.socket = "none"]
    /\ stop_call' = NotStopping
    /\ UNCHANGED <<rx_thread, now, fired, nrecv, streak, recv_since>>

\* line 94: the thread calls self.socket.recvfrom: it blocks on an open
\* socket; a closed socket raises OSError (lines 100-102: break); None has
\* no recvfrom, the AttributeError is printed (lines 103-104) and the loop
\* goes on
RecvCall ==
    /\ rx_thread = "recv"
    /\ rx_thread' = CASE receiver.socket = "open" -> "wait"
                      [] receiver.socket = "none" -> "loop"
                      [] OTHER -> "done"
    /\ recv_since' = now
    /\ fired' = <<>>
    /\ UNCHANGED <<receiver, now, nrecv, streak, stop_call>>

\* lines 94, 100-102: recvfrom on the open socket raises an OSError that is
\* not the timeout (ConnectionResetError): except OSError catches it, break
RecvError ==
    /\ rx_thread = "wait"
    /\ receiver.socket = "open"
    /\ rx_thread' = "done"
    /\ fired' = <<EvRaised("ConnectionResetError")>>
    /\ UNCHANGED <<receiver, now, nrecv, streak, stop_call, recv_since>>

\* line 94: recvfrom returns a datagram, and _handle_packet is entered
RecvData(maxRecv) ==
    /\ rx_thread = "wait"
    /\ nrecv < maxRecv
    /\ rx_thread' = "handle"
    /\ nrecv' = nrecv + 1
    /\ UNCHANGED <<receiver, now, fired, streak, stop_call, recv_since>>

\* lines 96-99: recvfrom raises socket.timeout 1 s after it was entered
RecvExpires ==
    /\ rx_thread = "wait"
    /\ now - recv_since >= RECV_TIMEOUT_MS
    /\ LET h == OnTimeout(receiver, now)
       IN  /\ receiver' = h[1]
           /\ fired' = h[2]
    /\ rx_thread' = "loop"
    /\ UNCHANGED <<now, nrecv, streak, stop_call, recv_since>>

\* line 95: _handle_packet(data, addr) and the callbacks it calls complete
Handled(data, addr) ==
    /\ rx_thread = "handle"
    /\ LET h == HandlePacket(receiver, data, addr, now)
       IN  /\ receiver' = h[1]
           /\ fired' = h[2]
    /\ rx_thread' = "loop"
    /\ UNCHANGED <<now, nrecv, stop_call, recv_since>>

HandledValid ==
    \E p \in ValidInputs, addr \in Addrs :
        /\ Handled(Encode(p), addr)
        /\ streak' = Observe(p, addr)

HandledMalformed ==
    \E data \in Malformed, addr \in Addrs :
        /\ Handled(data, addr)
        /\ streak' = streak

\* time passes while every thread is blocked or idle, up to the next
\* timeout
Tick(maxElapsed) ==
    /\ rx_thread \in {"none", "wait", "handle", "done"}
    /\ stop_call.pc \in {"idle", "join"}
    /\ rx_thread = "wait" => now + TickMs - recv_since <= RECV_TIMEOUT_MS
    /\ (stop_call.pc = "join" /\ rx_thread # "done")
           => now + TickMs - stop_call.since <= JOIN_TIMEOUT_MS
    /\ stop_call.pc = "join" => rx_thread # "done"
    /\ now + TickMs - StartTime <= maxElapsed
    /\ now' = now + TickMs
    /\ UNCHANGED <<receiver, rx_thread, fired, nrecv, streak, stop_call, recv_since>>

---------------------------------------------------------------------------
(* UdpAudioReceiver.get_stats(), called by a thread of the application     *)
(* while the receive thread runs: the attributes are read one at a time,   *)
(* in the order in which the dict display of lines 189-195 evaluates them. *)

NoStats == [pc |-> "idle", connected |-> FALSE, test |-> FALSE, client_ip |-> "",
            packets_received |-> 0, packets_lost |-> 0,
            numerator |-> 0, denominator |-> 0,
            result |-> "none", seen |-> {}]

\* what a point-in-time copy of the connection state holds
Snapshot(r) ==
    [client_address |-> r.client_address,
     packets_received |-> r.packets_received,
     packets_lost |-> r.packets_lost]

\* max(1, x), line 194
AtLeastOne(x) == IF x < 1 THEN 1 ELSE x

\* a call of get_stats(); line 190 reads self.client_address
StatsCall ==
    /\ stats_call.pc = "idle"
    /\ stats_call' = [NoStats EXCEPT !.pc = "test",
                                     !.connected = (receiver.client_address # None),
                                     !.seen = {Snapshot(receiver)}]
    /\ UNCHANGED <<rvars, avars, fifo>>

\* line 191: the condition of the conditional expression reads
\* self.client_address
StatsTest ==
    /\ stats_call.pc = "test"
    /\ stats_call' = [stats_call EXCEPT
           !.test = (receiver.client_address # None),
           !.pc = IF receiver.client_address # None THEN "index" ELSE "received",
           !.client_ip = "None"]
    /\ UNCHANGED <<rvars, avars, fifo>>

\* line 191: self.client_address[0]; TypeError when it has become None
StatsIndex ==
    /\ stats_call.pc = "index"
    /\ stats_call' = IF receiver.client_address # None
                     THEN [stats_call EXCEPT !.client_ip = receiver.client_address[1],
                                             !.pc = "received"]
                     ELSE [stats_call EXCEPT !.result = "TypeError", !.pc = "idle"]
    /\ UNCHANGED <<rvars, avars, fifo>>

\* line 192
StatsReceived ==
    /\ stats_call.pc = "received"
    /\ stats_call' = [stats_call EXCEPT !.packets_received = receiver.packets_received,
                                        !.pc = "lost"]
    /\ UNCHANGED <<rvars, avars, fifo>>

\* line 193
StatsLost ==
    /\ stats_call.pc = "lost"
    /\ stats_call' = [stats_call EXCEPT !.packets_lost = receiver.packets_lost,
                                        !.pc = "numerator"]
    /\ UNCHANGED <<rvars, avars, fifo>>

\* line 194: the left operand of the division reads self.packets_lost
StatsNumerator ==
    /\ stats_call.pc = "numerator"
    /\ stats_call' = [stats_call EXCEPT !.numerator = receiver.packets_lost,
                                        !.pc = "sum"]
    /\ UNCHANGED <<rvars, avars, fifo>>

\* line 194: self.packets_received + self.packets_lost is read
StatsSum ==
    /\ stats_call.pc = "sum"
    /\ stats_call' = [stats_call EXCEPT
           !.denominator = AtLeastOne(receiver.packets_received + receiver.packets_lost),
           !.pc = "return"]
    /\ UNCHANGED <<rvars, avars, fifo>>

\* lines 189-195: the dict is returned; loss_rate is
\* numerator / denominator * 100
StatsReturn ==
    /\ stats_call.pc = "return"
    /\ stats_call' = [stats_call EXCEPT !.result = "dict", !.pc = "idle"]
    /\ UNCHANGED <<rvars, avars, fifo>>

\* the states of the connection that a get_stats call in progress has
\* passed through (an observer)
Passed ==
    stats_call' = IF stats_call.pc = "idle" THEN stats_call
                  ELSE [stats_call EXCEPT !.seen = @ \cup {Snapshot(receiver')}]

SInit == stats_call = NoStats

---------------------------------------------------------------------------
(* AudioOutput: constants and sample arithmetic *)

BUFFER_FRAMES == 1024     \* blocksize of the stream: frames of every pull
max_buffer == 7200
LEVEL_REFERENCE == 10000  \* rms / 10000.0
INT16_MIN == -32768
INT16_MAX == 32767

NoStream == 0             \* self.stream = None
NoDevice == "None"        \* self.output_device = None

\* a numpy array: the elements of the function f on 1..n, evaluated
Array(f) == SubSeq(f, 1, Len(f))

\* the last n elements of a sequence: seq[-n:] for 0 < n
LastN(seq, n) ==
    IF Len(seq) <= n THEN seq ELSE SubSeq(seq, Len(seq) - n + 1, Len(seq))

\* seq[n:]
DropN(seq, n) ==
    IF Len(seq) <= n THEN <<>> ELSE SubSeq(seq, n + 1, Len(seq))

\* seq[:n]
TakeN(seq, n) ==
    IF Len(seq) <= n THEN seq ELSE SubSeq(seq, 1, n)

\* np.frombuffer(audio_data, dtype=np.int16): pairs of bytes, low byte
\* first, as two's complement numbers; ValueError when the length is odd
FromBuffer(audio_data) ==
    IF Len(audio_data) % 2 # 0 THEN [error |-> TRUE, samples |-> <<>>]
    ELSE [error |-> FALSE,
          samples |-> Array([k \in 1..(Len(audio_data) \div 2) |->
             LET u == audio_data[(2 * k) - 1] + (256 * audio_data[2 * k])
             IN  IF u > INT16_MAX THEN u - W16 ELSE u])]

\* astype(np.int16) of the float x / 100: truncation towards zero
Trunc100(x) == IF x >= 0 THEN x \div 100 ELSE -((-x) \div 100)

\* .clip(-32768, 32767)
Clip(x) == IF x < INT16_MIN THEN INT16_MIN ELSE IF x > INT16_MAX THEN INT16_MAX ELSE x

\* (variant: the scaled sample is wrapped modulo 2^16 instead of clipped)
ApplyVolume_Wraps(samples, volume) ==
    IF volume # 100
    THEN Array([k \in DOMAIN samples |->
             ((Trunc100(samples[k] * volume) + (W16 \div 2)) % W16) - (W16 \div 2)])
    ELSE samples

\* lines 129-130: the volume (in hundredths) applied to the samples.  For
\* the volumes of the model (multiples of 0.5) the float32 product is exact.
ApplyVolume(samples, volume) ==
    IF volume # 100
    THEN Array([k \in DOMAIN samples |-> Clip(Trunc100(samples[k] * volume))])
    ELSE samples

\* sum of the squares of samples[lo..hi] as <<high, low>> with value
\* high * 2^30 + low (a square is at most 2^30)
RECURSIVE SumSquares(_, _, _)
SumSquares(samples, lo, hi) ==
    IF lo = hi
    THEN LET q == samples[lo] * samples[lo] IN <<q \div (2 ^ 30), q % (2 ^ 30)>>
    ELSE LET mid == (lo + hi) \div 2
             a == SumSquares(samples, lo, mid)
             b == SumSquares(samples, mid + 1, hi)
             low == a[2] + (b[2] - 2 ^ 30)      \* a[2] + b[2] - 2^30, no overflow
         IN  IF low >= 0 THEN <<a[1] + b[1] + 1, low>>
             ELSE <<a[1] + b[1], low + 2 ^ 30>>

\* floor of (x[1] * 2^30 + x[2]) / n, for x[1] < n < 2^15
MeanOf(x, n) ==
    LET x1 == (x[1] * (2 ^ 15)) + (x[2] \div (2 ^ 15))
        x2 == ((x1 % n) * (2 ^ 15)) + (x[2] % (2 ^ 15))
    IN  ((x1 \div n) * (2 ^ 15)) + (x2 \div n)

\* floor of the square root of q, 0 <= q <= 2^30, by bisection on [lo, hi]
RECURSIVE ISqrt(_, _, _)
ISqrt(q, lo, hi) ==
    IF lo = hi THEN lo
    ELSE LET mid == (lo + hi + 1) \div 2
         IN  IF mid * mid <= q THEN ISqrt(q, mid, hi) ELSE ISqrt(q, lo, mid - 1)

\* lines 134-135: min(1.0, rms / 10000.0) in ten-thousandths, the rms and
\* the mean rounded down to integers
LevelOf(samples) ==
    LET rms == ISqrt(MeanOf(SumSquares(samples, 1, Len(samples)), Len(samples)),
                     0, 2 ^ 15)
    IN  IF rms > LEVEL_REFERENCE THEN LEVEL_REFERENCE ELSE rms

\* (variant: the overflow is cut from the tail, keeping the oldest samples)
TrimBuffer_KeepsOldest(buffer) ==
    IF Len(buffer) > max_buffer THEN TakeN(buffer, max_buffer) ELSE buffer

\* (variant: the ceiling test is off by one chunk boundary, > becomes
\* > max_buffer + 1)
TrimBuffer_OffByOne(buffer) ==
    IF Len(buffer) > max_buffer + 1 THEN LastN(buffer, max_buffer) ELSE buffer

\* lines 142-145: limit the buffer size
TrimBuffer(buffer) ==
    IF Len(buffer) > max_buffer THEN LastN(buffer, max_buffer) ELSE buffer

\* (variant: the buffer head is not advanced past the samples copied out)
PullResult_NoAdvance(buffer, level, frames) ==
    LET available == Len(buffer)
    IN  IF available >= frames
        THEN [outdata |-> TakeN(buffer, frames),
              buffer |-> DropN(buffer, frames - 1), level |-> level]
        ELSE IF available > 0
        THEN [outdata |-> buffer \o [k \in 1..(frames - available) |-> buffer[available]],
              buffer |-> <<>>, level |-> level]
        ELSE [outdata |-> [k \in 1..frames |-> 0], buffer |-> <<>>, level |-> 0]

\* (variant: a short buffer is padded with its first sample)
PullResult_PadsWithHead(buffer, level, frames) ==
    LET available == Len(buffer)
    IN  IF available >= frames
        THEN [outdata |-> TakeN(buffer, frames),
              buffer |-> DropN(buffer, frames), level |-> level]
        ELSE IF available > 0
        THEN [outdata |-> buffer \o [k \in 1..(frames - available) |-> buffer[1]],
              buffer |-> <<>>, level |-> level]
        ELSE [outdata |-> [k \in 1..frames |-> 0], buffer |-> <<>>, level |-> 0]

\* (variant: a pull on the empty buffer leaves the level alone)
PullResult_KeepsLevel(buffer, level, frames) ==
    LET available == Len(buffer)
    IN  IF available >= frames
        THEN [outdata |-> TakeN(buffer, frames),
              buffer |-> DropN(buffer, frames), level |-> level]
        ELSE IF available > 0
        THEN [outdata |-> buffer \o [k \in 1..(frames - available) |-> buffer[available]],
              buffer |-> <<>>, level |-> level]
        ELSE [outdata |-> [k \in 1..frames |-> 0], buffer |-> <<>>, level |-> level]

\* _callback, lines 153-171, on a buffer and a level: what is written to
\* outdata, the buffer and the level afterwards
PullResult(buffer, level, frames) ==
    LET available == Len(buffer)
    IN  IF available >= frames
        THEN [outdata |-> TakeN(buffer, frames),
              buffer |-> DropN(buffer, frames), level |-> level]
        ELSE IF available > 0
        THEN [outdata |-> buffer \o [k \in 1..(frames - available) |-> buffer[available]],
              buffer |-> <<>>, level |-> level]
        ELSE [outdata |-> [k \in 1..frames |-> 0], buffer |-> <<>>, level |-> 0]

---------------------------------------------------------------------------
(* Inputs of AudioOutput *)

\* the byte lengths of the chunks written: empty, one sample, odd,
\* 2 * frames samples, 4000 samples, one sample more than the ceiling
ChunkBytes == {0, 3, 4 * BUFFER_FRAMES, 10400, 2 * max_buffer + 2}

\* the bytes of the chunk of the given length written as the tag-th chunk:
\* sample i is (tag * 20011 + i * 13) mod 2^16 as an unsigned number
ChunkData(nbytes, tag) ==
    Array([k \in 1..nbytes |->
        LET u == ((tag * 20011) + (((k + 1) \div 2) * 13)) % W16
        IN  IF k % 2 = 1 THEN u % 256 ELSE u \div 256])

\* the chunks handed to write: the tag-th write of the model gets one of
\* the chunks of that tag
ChunkInputs ==
    { [tag |-> i, audio_data |-> ChunkData(n, i)] : n \in ChunkBytes, i \in 1..MaxCalls }

\* the byte lengths of the short chunks: empty, odd, two samples
ShortBytes == {0, 3, 4}

\* the short chunks handed to write
ShortInputs ==
    { [tag |-> i, audio_data |-> ChunkData(n, i)] : n \in ShortBytes, i \in 1..MaxCalls }

VolumeInputs == {-50, 300}    \* hundredths
FineVolumeInputs == {-50, 25, 300}    \* the volumes set with short chunks
DeviceInputs == {NoDevice, "cable"}
Threads == {"rx", "ui"}

---------------------------------------------------------------------------
(* AudioOutput *)

\* AudioOutput.__init__
AudioInit ==
    [ output_device |-> NoDevice,
      stream |-> NoStream,
      running |-> FALSE,
      buffer |-> <<>>,
      current_level |-> 0,        \* ten-thousandths
      volume |-> 100 ]            \* hundredths

Idle == [pc |-> "idle", audio_data |-> <<>>, samples |-> <<>>,
         was_running |-> FALSE, device_id |-> NoDevice, in_set_device |-> FALSE]

At(t, pc) == calls[t].pc = pc
Goto(t, pc) == calls' = [calls EXCEPT ![t].pc = pc]
Return(t) == calls' = [calls EXCEPT ![t] = Idle]
Active == { i \in DOMAIN streams : streams[i].state = "active" }

\* the calls and pulls made so far
Calls == count.writes + count.control + count.pulls

\* (variant: the volume is only clamped from above)
ClampVolume_NoFloor(v) == IF v > 200 THEN 200 ELSE v

\* line 179: max(0.0, min(2.0, volume))
ClampVolume(v) == IF v > 200 THEN 200 ELSE IF v < 0 THEN 0 ELSE v

\* (variant: the level is taken from the samples before the volume is
\* applied)
Process_LevelOfInput(audio_data, volume) ==
    LET decoded == FromBuffer(audio_data)
    IN  IF decoded.error
        THEN [error |-> TRUE, samples |-> <<>>, level |-> 0]
        ELSE LET samples == ApplyVolume(decoded.samples, volume)
             IN  [error |-> FALSE, samples |-> samples,
                  level |-> IF Len(samples) > 0 THEN LevelOf(decoded.samples) ELSE -1]

\* write, lines 125-135, on the bytes and the volume: the conversion, the
\* volume and the level; error when an exception is raised
Process(audio_data, volume) ==
    LET decoded == FromBuffer(audio_data)
    IN  IF decoded.error
        THEN [error |-> TRUE, samples |-> <<>>, level |-> 0]
        ELSE LET samples == ApplyVolume(decoded.samples, volume)
             IN  [error |-> FALSE, samples |-> samples,
                  level |-> IF Len(samples) > 0 THEN LevelOf(samples) ELSE -1]

\* the volumes the renderer can have
Volumes == {AudioInit.volume} \cup { ClampVolume(v) : v \in VolumeInputs }
FineVolumes == {AudioInit.volume} \cup { ClampVolume(v) : v \in FineVolumeInputs }

\* Process on every chunk and volume of the model, evaluated once
Processed ==
    { [audio_data |-> p[1], volume |-> p[2], result |-> Process(p[1], p[2])] :
        p \in ({ c.audio_data : c \in ChunkInputs } \X Volumes)
               \cup ({ c.audio_data : c \in ShortInputs } \X FineVolumes) }

ProcessOf(audio_data, volume) ==
    (CHOOSE p \in Processed : p.audio_data = audio_data /\ p.volume = volume).result

\* set_volume(v), lines 177-179
SetVolume(t, v) ==
    /\ At(t, "idle")
    /\ Calls < MaxCalls
    /\ count' = [count EXCEPT !.control = @ + 1]
    /\ audio_output' = [audio_output EXCEPT !.volume = ClampVolume(v)]
    /\ UNCHANGED <<buffer_lock, streams, calls, outdata, written, pulled>>

\* (variant: write only tests the length of its input, not self.running)
WriteCall_IgnoresRunning(t, audio_data) ==
    /\ At(t, "idle")
    /\ Calls < MaxCalls
    /\ count' = [count EXCEPT !.writes = @ + 1]
    /\ IF Len(audio_data) = 0
       THEN UNCHANGED calls
       ELSE calls' = [calls EXCEPT ![t].pc = "w_process", ![t].audio_data = audio_data]
    /\ UNCHANGED <<audio_output, buffer_lock, streams, outdata, written, pulled>>

\* write(audio_data), lines 122-123: the running and length test
WriteCall(t, audio_data) ==
    /\ At(t, "idle")
    /\ Calls < MaxCalls
    /\ count' = [count EXCEPT !.writes = @ + 1]
    /\ IF ~audio_output.running \/ Len(audio_data) = 0
       THEN UNCHANGED calls
       ELSE calls' = [calls EXCEPT ![t].pc = "w_process", ![t].audio_data = audio_data]
    /\ UNCHANGED <<audio_output, buffer_lock, streams, outdata, written, pulled>>

\* (variant: the exception handler of write also zeroes the level)
WriteProcess_ErrorZeroesLevel(t) ==
    /\ At(t, "w_process")
    /\ LET r == ProcessOf(calls[t].audio_data, audio_output.volume)
       IN  IF r.error
           THEN /\ Return(t)
                /\ count' = [count EXCEPT !.errors = @ + 1]
                /\ audio_output' = [audio_output EXCEPT !.current_level = 0]
           ELSE /\ audio_output' = [audio_output EXCEPT
                       !.current_level = IF r.level >= 0 THEN r.level ELSE @]
                /\ calls' = [calls EXCEPT ![t].pc = "w_append", ![t].samples = r.samples]
                /\ UNCHANGED count
    /\ UNCHANGED <<buffer_lock, streams, outdata, written, pulled>>

\* write, lines 125-135 and 147-148: the conversion, the volume and the
\* level; an exception ends the call
WriteProcess(t) ==
    /\ At(t, "w_process")
    /\ LET r == ProcessOf(calls[t].audio_data, audio_output.volume)
       IN  IF r.error
           THEN /\ Return(t)
                /\ count' = [count EXCEPT !.errors = @ + 1]    \* line 148
                /\ UNCHANGED audio_output
           ELSE /\ audio_output' = [audio_output EXCEPT
                       !.current_level = IF r.level >= 0 THEN r.level ELSE @]
                /\ calls' = [calls EXCEPT ![t].pc = "w_append", ![t].samples = r.samples]
                /\ UNCHANGED count
    /\ UNCHANGED <<buffer_lock, streams, outdata, written, pulled>>

\* (variant: the chunk is put in front of the buffered samples)
WriteAppend_Prepends(t) ==
    /\ At(t, "w_append")
    /\ buffer_lock = "free"
    /\ buffer_lock' = t
    /\ audio_output' = [audio_output EXCEPT !.buffer = calls[t].samples \o @]
    /\ written' = IF pulled THEN <<>> ELSE written \o calls[t].samples
    /\ Goto(t, "w_trim")
    /\ UNCHANGED <<streams, outdata, count, pulled>>

\* write, lines 137-139: take the lock and append
WriteAppend(t) ==
    /\ At(t, "w_append")
    /\ buffer_lock = "free"
    /\ buffer_lock' = t
    /\ audio_output' = [audio_output EXCEPT !.buffer = @ \o calls[t].samples]
    /\ written' = IF pulled THEN <<>> ELSE written \o calls[t].samples
    /\ Goto(t, "w_trim")
    /\ UNCHANGED <<streams, outdata, count, pulled>>

\* (variant: the write returns without releasing the lock)
WriteTrim_KeepsLock(t) ==
    /\ At(t, "w_trim")
    /\ audio_output' = [audio_output EXCEPT !.buffer = TrimBuffer(@)]
    /\ buffer_lock' = buffer_lock
    /\ Return(t)
    /\ UNCHANGED <<streams, outdata, count, written, pulled>>

\* write, lines 142-145: trim and release the lock
WriteTrim(t) ==
    /\ At(t, "w_trim")
    /\ audio_output' = [audio_output EXCEPT !.buffer = TrimBuffer(@)]
    /\ buffer_lock' = "free"
    /\ Return(t)
    /\ UNCHANGED <<streams, outdata, count, written, pulled>>

\* _callback, lines 150-171, called by an active stream
Callback ==
    /\ Active # {}
    /\ buffer_lock = "free"
    /\ Calls < MaxCalls
    /\ count' = [count EXCEPT !.pulls = @ + 1]
    /\ LET r == PullResult(audio_output.buffer, audio_output.current_level, BUFFER_FRAMES)
       IN  /\ outdata' = r.outdata
           /\ audio_output' = [audio_output EXCEPT !.buffer = r.buffer,
                                                   !.current_level = r.level]
    /\ pulled' = TRUE
    /\ written' = <<>>
    /\ UNCHANGED <<buffer_lock, streams, calls>>

\* start(), lines 78-79
StartCheck(t) ==
    /\ IF audio_output.running
       THEN Return(t)
       ELSE Goto(t, "s_clear")
    /\ UNCHANGED <<audio_output, buffer_lock, streams, outdata, count, written, pulled>>

\* a call of start()
StartCall(t) ==
    /\ At(t, "idle")
    /\ Calls < MaxCalls
    /\ count' = [count EXCEPT !.control = @ + 1]
    /\ IF audio_output.running
       THEN UNCHANGED calls
       ELSE Goto(t, "s_clear")
    /\ UNCHANGED <<audio_output, buffer_lock, streams, outdata, written, pulled>>

\* start() reached from set_output_device, line 74
StartNested(t) ==
    /\ At(t, "s_check")
    /\ StartCheck(t)
    /\ UNCHANGED count

\* start(), lines 81-82: clear the buffer under the lock
StartClear(t) ==
    /\ At(t, "s_clear")
    /\ buffer_lock = "free"
    /\ audio_output' = [audio_output EXCEPT !.buffer = <<>>]
    /\ written' = <<>>
    /\ pulled' = FALSE
    /\ Goto(t, "s_open")
    /\ UNCHANGED <<buffer_lock, streams, outdata, count>>

\* start(), lines 85-92: the stream is opened on self.output_device
StartOpen(t) ==
    /\ At(t, "s_open")
    /\ streams' = Append(streams, [device |-> audio_output.output_device, state |-> "open"])
    /\ audio_output' = [audio_output EXCEPT !.stream = Len(streams) + 1]
    /\ Goto(t, "s_start")
    /\ UNCHANGED <<buffer_lock, outdata, count, written, pulled>>

\* start(), lines 85-92 raising (the device cannot be opened), lines 101-103
StartOpenFails(t) ==
    /\ At(t, "s_open")
    /\ audio_output' = [audio_output EXCEPT !.running = FALSE]
    /\ Return(t)
    /\ UNCHANGED <<buffer_lock, streams, outdata, count, written, pulled>>

\* start(), line 93: self.stream.start(); with self.stream None the
\* AttributeError is caught at lines 101-103
StartStream(t) ==
    /\ At(t, "s_start")
    /\ IF audio_output.stream = NoStream
       THEN /\ audio_output' = [audio_output EXCEPT !.running = FALSE]
            /\ Return(t)
            /\ UNCHANGED streams
       ELSE /\ streams' = [streams EXCEPT ![audio_output.stream].state =
                              IF @ = "open" THEN "active" ELSE @]
            /\ Goto(t, "s_run")
            /\ UNCHANGED audio_output
    /\ UNCHANGED <<buffer_lock, outdata, count, written, pulled>>

\* start(), line 94: self.running = True (the name lookup and the print of
\* lines 96-99 follow)
StartRunning(t) ==
    /\ At(t, "s_run")
    /\ audio_output' = [audio_output EXCEPT !.running = TRUE]
    /\ Return(t)
    /\ UNCHANGED <<buffer_lock, streams, outdata, count, written, pulled>>

\* start(), lines 94-98 with a device set: self.running = True, and the
\* device's name is looked up
StartLookup(t) ==
    /\ At(t, "s_run")
    /\ audio_output.output_device # NoDevice
    /\ audio_output' = [audio_output EXCEPT !.running = TRUE]
    /\ Goto(t, "s_name")
    /\ UNCHANGED <<buffer_lock, streams, outdata, count, written, pulled>>

\* start(), line 98 raising (the device is gone), lines 101-103: the stream
\* that line 93 started is left as it is
StartLookupFails(t) ==
    /\ At(t, "s_name")
    /\ audio_output' = [audio_output EXCEPT !.running = FALSE]
    /\ Return(t)
    /\ UNCHANGED <<buffer_lock, streams, outdata, count, written, pulled>>

\* stop(), line 107
StopFlag(t) ==
    /\ audio_output' = [audio_output EXCEPT !.running = FALSE]
    /\ Goto(t, "p_close")
    /\ UNCHANGED <<buffer_lock, streams, outdata, written, pulled>>

\* a call of stop()
StopCall(t) ==
    /\ At(t, "idle")
    /\ Calls < MaxCalls
    /\ count' = [count EXCEPT !.control = @ + 1]
    /\ StopFlag(t)

\* stop() reached from set_output_device, line 71
StopNested(t) ==
    /\ At(t, "p_flag")
    /\ StopFlag(t)
    /\ UNCHANGED count

\* stop(), lines 108-113: the stream is stopped and closed
StopStream(t) ==
    /\ At(t, "p_close")
    /\ IF audio_output.stream # NoStream
       THEN /\ streams' = [streams EXCEPT ![audio_output.stream].state = "closed"]
            /\ Goto(t, "p_none")
       ELSE /\ Goto(t, "p_clear")
            /\ UNCHANGED streams
    /\ UNCHANGED <<audio_output, buffer_lock, outdata, count, written, pulled>>

\* stop(), line 114: self.stream = None
StopForget(t) ==
    /\ At(t, "p_none")
    /\ audio_output' = [audio_output EXCEPT !.stream = NoStream]
    /\ Goto(t, "p_clear")
    /\ UNCHANGED <<buffer_lock, streams, outdata, count, written, pulled>>

\* stop(), lines 116-117: clear the buffer under the lock
StopClear(t) ==
    /\ At(t, "p_clear")
    /\ buffer_lock = "free"
    /\ audio_output' = [audio_output EXCEPT !.buffer = <<>>]
    /\ written' = <<>>
    /\ pulled' = FALSE
    /\ Goto(t, "p_level")
    /\ UNCHANGED <<buffer_lock, streams, outdata, count>>

\* stop(), line 118: the level is zeroed; the call returns, into
\* set_output_device (line 72) when it came from there
StopLevel(t) ==
    /\ At(t, "p_level")
    /\ audio_output' = [audio_output EXCEPT !.current_level = 0]
    /\ IF calls[t].in_set_device THEN Goto(t, "d_set") ELSE Return(t)
    /\ UNCHANGED <<buffer_lock, streams, outdata, count, written, pulled>>

\* set_output_device(device_id), lines 69-71
SetDeviceCall(t, device_id) ==
    /\ At(t, "idle")
    /\ Calls < MaxCalls
    /\ count' = [count EXCEPT !.control = @ + 1]
    /\ calls' = [calls EXCEPT ![t].pc = IF audio_output.running THEN "p_flag" ELSE "d_set",
                              ![t].was_running = audio_output.running,
                              ![t].device_id = device_id,
                              ![t].in_set_device = TRUE]
    /\ UNCHANGED <<audio_output, buffer_lock, streams, outdata, written, pulled>>

\* set_output_device, lines 72-74
SetDevice(t) ==
    /\ At(t, "d_set")
    /\ audio_output' = [audio_output EXCEPT !.output_device = calls[t].device_id]
    /\ IF calls[t].was_running
       THEN calls' = [calls EXCEPT ![t] = [Idle EXCEPT !.pc = "s_check"]]
       ELSE Return(t)
    /\ UNCHANGED <<buffer_lock, streams, outdata, count, written, pulled>>

---------------------------------------------------------------------------
(* The observer of the jitter buffer.  It records every sample that write  *)
(* appends (line 139), every sample that a pull copies from the buffer to  *)
(* the device (lines 157 and 162, not the padding of line 163 or the       *)
(* silence of line 169), and, in order, how many samples each pull and     *)
(* each trim (line 145) took off the buffer.  It is told lengths only.     *)

NoFifo == [written |-> <<>>, emitted |-> <<>>, left |-> <<>>]

Min(a, b) == IF a < b THEN a ELSE b

\* lines 138-139: the samples of the chunk are appended
LogAppend(t) ==
    fifo' = [fifo EXCEPT !.written = @ \o calls[t].samples]

\* lines 142-145: the buffer is n samples shorter after the trim, and was
\* over samples above the ceiling before it
LogTrim ==
    LET n == Len(audio_output.buffer) - Len(audio_output'.buffer)
        over == Len(audio_output.buffer) - max_buffer
    IN  fifo' = IF n = 0 /\ over <= 0 THEN fifo
                ELSE [fifo EXCEPT !.left = Append(@, [n |-> n, by |-> "trim", over |-> over])]

\* lines 153-163: the pull copies min(frames, available) samples to the
\* device, and the buffer is n samples shorter after it
LogPull ==
    LET copied == Min(BUFFER_FRAMES, Len(audio_output.buffer))
        n == Len(audio_output.buffer) - Len(audio_output'.buffer)
    IN  fifo' = IF n = 0 /\ copied = 0 THEN fifo
                ELSE [fifo EXCEPT !.emitted = @ \o SubSeq(outdata', 1, copied),
                                  !.left = Append(@, [n |-> n, by |-> "pull", over |-> copied])]

FInit == fifo = NoFifo

---------------------------------------------------------------------------
(* The renderer's specification: the receive thread "rx" writes and, on    *)
(* connect and disconnect, starts and stops; the UI thread "ui" sets the   *)
(* device and the volume; the device's thread pulls.                       *)

AInit ==
    /\ audio_output = AudioInit
    /\ buffer_lock = "free"
    /\ streams = <<>>
    /\ calls = [t \in Threads |-> Idle]
    /\ outdata = <<>>
    /\ count = [writes |-> 0, control |-> 0, pulls |-> 0, errors |-> 0]
    /\ written = <<>>
    /\ pulled = FALSE

ANext ==
    \/ \E c \in ChunkInputs :
          c.tag = count.writes + 1 /\ WriteCall("rx", c.audio_data) /\ UNCHANGED <<rvars, svars>>
    \/ WriteProcess("rx") /\ UNCHANGED <<rvars, svars>>
    \/ WriteAppend("rx") /\ UNCHANGED <<rvars, svars>>
    \/ WriteTrim("rx") /\ UNCHANGED <<rvars, svars>>
    \/ Callback /\ UNCHANGED <<rvars, svars>>
    \/ StartCall("rx") /\ UNCHANGED <<rvars, svars>>
    \/ StartNested("ui") /\ UNCHANGED <<rvars, svars>>
    \/ \E t \in Threads : StartClear(t) /\ UNCHANGED <<rvars, svars>>
    \/ \E t \in Threads : StartOpen(t) /\ UNCHANGED <<rvars, svars>>
    \/ \E t \in Threads : StartOpenFails(t) /\ UNCHANGED <<rvars, svars>>
    \/ \E t \in Threads : StartStream(t) /\ UNCHANGED <<rvars, svars>>
    \/ \E t \in Threads : StartRunning(t) /\ UNCHANGED <<rvars, svars>>
    \/ StopCall("rx") /\ UNCHANGED <<rvars, svars>>
    \/ StopNested("ui") /\ UNCHANGED <<rvars, svars>>
    \/ \E t \in Threads : StopStream(t) /\ UNCHANGED <<rvars, svars>>
    \/ \E t \in Threads : StopForget(t) /\ UNCHANGED <<rvars, svars>>
    \/ \E t \in Threads : StopClear(t) /\ UNCHANGED <<rvars, svars>>
    \/ \E t \in Threads : StopLevel(t) /\ UNCHANGED <<rvars, svars>>
    \/ \E d \in DeviceInputs : SetDeviceCall("ui", d) /\ UNCHANGED <<rvars, svars>>
    \/ SetDevice("ui") /\ UNCHANGED <<rvars, svars>>
    \/ \E v \in VolumeInputs : SetVolume("ui", v) /\ UNCHANGED <<rvars, svars>>

---------------------------------------------------------------------------
(* The receiver's specification *)

RInit ==
    /\ receiver = ReceiverInit
    /\ rx_thread = "none"
    /\ now = StartTime
    /\ fired = <<>>
    /\ nrecv = 0
    /\ streak = NoRun
    /\ stop_call = NotStopping
    /\ recv_since = StartTime

\* the state after construction of the receiver and the renderer
Init == RInit /\ AInit /\ SInit /\ FInit

\* bursts of datagrams: up to MaxRecv datagrams within MaxElapsed ms
RNext ==
    \/ LoopTest /\ UNCHANGED <<avars, svars>>
    \/ ReceiveValid(MaxRecv, MaxElapsed) /\ UNCHANGED <<avars, svars>>
    \/ ReceiveMalformed(MaxRecv, MaxElapsed) /\ UNCHANGED <<avars, svars>>
    \/ RecvTimeout(MaxElapsed) /\ UNCHANGED <<avars, svars>>
    \/ Start /\ UNCHANGED <<avars, svars>>

SpecReceiver == Init /\ [][RNext]_vars

\* the values of the outgoing counter that a receiver object is started
\* with: 0 after construction, and two values before the 16-bit and the
\* 32-bit carry
AckCounters == { <<0, W16 - 1>>, <<W16 - 1, W16 - 1>> }

\* the receiver object after an earlier session: started, a client whose
\* KEEPALIVE packets were answered until the outgoing counter was a, a
\* DISCONNECT with sequence 0 from another address at StartTime, stop()
Restarted(a) ==
    [ReceiverInit EXCEPT !.ack_sequence = a,
                         !.last_packet_time = StartTime,
                         !.packets_received = 1,
                         !.last_sequence = <<0, 0>>]

\* the state before start(), after construction or after an earlier session
InitAcks ==
    /\ receiver \in {ReceiverInit} \cup { Restarted(a) : a \in AckCounters }
    /\ rx_thread = "none"
    /\ now = StartTime
    /\ fired = <<>>
    /\ nrecv = 0
    /\ streak = NoRun
    /\ stop_call = NotStopping
    /\ recv_since = StartTime
    /\ AInit
    /\ SInit
    /\ FInit

\* acknowledgments: bursts of datagrams to a receiver whose outgoing
\* counter is near a carry
KNext ==
    \/ LoopTest /\ UNCHANGED <<avars, svars>>
    \/ ReceiveValid(MaxRecvAcks, MaxElapsedAcks) /\ UNCHANGED <<avars, svars>>
    \/ ReceiveMalformed(MaxRecvAcks, MaxElapsedAcks) /\ UNCHANGED <<avars, svars>>
    \/ RecvTimeout(MaxElapsedAcks) /\ UNCHANGED <<avars, svars>>
    \/ Start /\ UNCHANGED <<avars, svars>>

SpecAcks == InitAcks /\ [][KNext]_vars

\* noise: a client's packets at the start, then datagrams that are too
\* short or have a wrong magic, each arriving before the receive timeout
NNext ==
    \/ LoopTest /\ UNCHANGED <<avars, svars>>
    \/ ReceiveValid(MaxValidNoise, MaxElapsedNoise) /\ UNCHANGED <<avars, svars>>
    \/ ReceiveNoise(MaxRecvNoise, MaxElapsedNoise) /\ UNCHANGED <<avars, svars>>
    \/ RecvTimeout(MaxElapsedNoise) /\ UNCHANGED <<avars, svars>>
    \/ Start /\ UNCHANGED <<avars, svars>>

SpecNoise == Init /\ [][NNext]_vars

\* long silences: up to MaxRecvSilence datagrams within MaxElapsedSilence ms
SNext ==
    \/ LoopTest /\ UNCHANGED <<avars, svars>>
    \/ ReceiveValid(MaxRecvSilence, MaxElapsedSilence) /\ UNCHANGED <<avars, svars>>
    \/ ReceiveMalformed(MaxRecvSilence, MaxElapsedSilence) /\ UNCHANGED <<avars, svars>>
    \/ RecvTimeout(MaxElapsedSilence) /\ UNCHANGED <<avars, svars>>
    \/ Start /\ UNCHANGED <<avars, svars>>

SpecSilence == Init /\ [][SNext]_vars

\* shutdown: stop() called at any moment, by the application's main thread,
\* of a receiver that is started once
LNext ==
    \/ rx_thread = "none" /\ stop_call.pc = "idle" /\ Start /\ UNCHANGED <<avars, svars>>
    \/ LoopTest /\ UNCHANGED <<avars, svars>>
    \/ RecvCall /\ UNCHANGED <<avars, svars>>
    \/ RecvData(MaxRecvShutdown) /\ UNCHANGED <<avars, svars>>
    \/ RecvExpires /\ UNCHANGED <<avars, svars>>
    \/ HandledValid /\ UNCHANGED <<avars, svars>>
    \/ HandledMalformed /\ UNCHANGED <<avars, svars>>
    \/ Tick(MaxElapsedShutdown) /\ UNCHANGED <<avars, svars>>
    \/ ReceiverStop /\ UNCHANGED <<avars, svars>>
    \/ ReceiverJoined /\ UNCHANGED <<avars, svars>>
    \/ ReceiverJoinTimeout /\ UNCHANGED <<avars, svars>>
    \/ ReceiverClose /\ UNCHANGED <<avars, svars>>
    \/ ReceiverForget /\ UNCHANGED <<avars, svars>>

SpecShutdown == Init /\ [][LNext]_vars

\* faults: the bind of start() can fail and recvfrom can raise, with stop()
\* called at any moment
FNext ==
    \/ rx_thread = "none" /\ stop_call.pc = "idle" /\ Start /\ UNCHANGED <<avars, svars>>
    \/ rx_thread = "none" /\ stop_call.pc = "idle" /\ StartBindFails /\ UNCHANGED <<avars, svars>>
    \/ LoopTest /\ UNCHANGED <<avars, svars>>
    \/ RecvCall /\ UNCHANGED <<avars, svars>>
    \/ RecvData(MaxRecvFaults) /\ UNCHANGED <<avars, svars>>
    \/ RecvExpires /\ UNCHANGED <<avars, svars>>
    \/ RecvError /\ UNCHANGED <<avars, svars>>
    \/ HandledValid /\ UNCHANGED <<avars, svars>>
    \/ HandledMalformed /\ UNCHANGED <<avars, svars>>
    \/ Tick(MaxElapsedFaults) /\ UNCHANGED <<avars, svars>>
    \/ ReceiverStop /\ UNCHANGED <<avars, svars>>
    \/ ReceiverJoined /\ UNCHANGED <<avars, svars>>
    \/ ReceiverJoinTimeout /\ UNCHANGED <<avars, svars>>
    \/ ReceiverClose /\ UNCHANGED <<avars, svars>>
    \/ ReceiverForget /\ UNCHANGED <<avars, svars>>

SpecFaults == Init /\ [][FNext]_vars

\* statistics: get_stats() called at any moment while datagrams arrive
TNext ==
    \/ Start /\ Passed /\ UNCHANGED <<avars, fifo>>
    \/ LoopTest /\ Passed /\ UNCHANGED <<avars, fifo>>
    \/ ReceiveValid(MaxRecvStats, MaxElapsedStats) /\ Passed /\ UNCHANGED <<avars, fifo>>
    \/ RecvTimeout(MaxElapsedStats) /\ Passed /\ UNCHANGED <<avars, fifo>>
    \/ StatsCall
    \/ StatsTest
    \/ StatsIndex
    \/ StatsReceived
    \/ StatsLost
    \/ StatsNumerator
    \/ StatsSum
    \/ StatsReturn

SpecStats == Init /\ [][TNext]_vars

\* the renderer alone
SpecAudio == Init /\ [][ANext]_vars

\* the renderer's calls with short chunks: as ANext, with one more volume,
\* and the UI thread also stops the renderer when the application quits
\* (app.py, line 172)
CNext ==
    \/ \E c \in ShortInputs :
          c.tag = count.writes + 1 /\ WriteCall("rx", c.audio_data) /\ UNCHANGED <<rvars, svars>>
    \/ WriteProcess("rx") /\ UNCHANGED <<rvars, svars>>
    \/ WriteAppend("rx") /\ UNCHANGED <<rvars, svars>>
    \/ WriteTrim("rx") /\ UNCHANGED <<rvars, svars>>
    \/ Callback /\ UNCHANGED <<rvars, svars>>
    \/ StartCall("rx") /\ UNCHANGED <<rvars, svars>>
    \/ StartNested("ui") /\ UNCHANGED <<rvars, svars>>
    \/ \E t \in Threads : StartClear(t) /\ UNCHANGED <<rvars, svars>>
    \/ \E t \in Threads : StartOpen(t) /\ UNCHANGED <<rvars, svars>>
    \/ \E t \in Threads : StartOpenFails(t) /\ UNCHANGED <<rvars, svars>>
    \/ \E t \in Threads : StartStream(t) /\ UNCHANGED <<rvars, svars>>
    \/ \E t \in Threads : StartRunning(t) /\ UNCHANGED <<rvars, svars>>
    \/ \E t \in Threads : StopCall(t) /\ UNCHANGED <<rvars, svars>>
    \/ StopNested("ui") /\ UNCHANGED <<rvars, svars>>
    \/ \E t \in Threads : StopStream(t) /\ UNCHANGED <<rvars, svars>>
    \/ \E t \in Threads : StopForget(t) /\ UNCHANGED <<rvars, svars>>
    \/ \E t \in Threads : StopClear(t) /\ UNCHANGED <<rvars, svars>>
    \/ \E t \in Threads : StopLevel(t) /\ UNCHANGED <<rvars, svars>>
    \/ \E d \in DeviceInputs : SetDeviceCall("ui", d) /\ UNCHANGED <<rvars, svars>>
    \/ SetDevice("ui") /\ UNCHANGED <<rvars, svars>>
    \/ \E v \in FineVolumeInputs : SetVolume("ui", v) /\ UNCHANGED <<rvars, svars>>

SpecAudioCalls == Init /\ [][CNext]_vars

\* one writer and the pull callback: the receive thread starts the renderer
\* and writes chunks of every length, the device's thread pulls, and the
\* observer of the buffer follows them
JNext ==
    \/ \E c \in ChunkInputs :
          /\ c.tag = count.writes + 1
          /\ WriteCall("rx", c.audio_data) /\ UNCHANGED <<rvars, svars>>
    \/ WriteProcess("rx") /\ UNCHANGED <<rvars, svars>>
    \/ WriteAppend("rx") /\ LogAppend("rx") /\ UNCHANGED <<rvars, stats_call>>
    \/ WriteTrim("rx") /\ LogTrim /\ UNCHANGED <<rvars, stats_call>>
    \/ Callback /\ LogPull /\ UNCHANGED <<rvars, stats_call>>
    \/ StartCall("rx") /\ UNCHANGED <<rvars, svars>>
    \/ StartClear("rx") /\ UNCHANGED <<rvars, svars>>
    \/ StartOpen("rx") /\ UNCHANGED <<rvars, svars>>
    \/ StartOpenFails("rx") /\ UNCHANGED <<rvars, svars>>
    \/ StartStream("rx") /\ UNCHANGED <<rvars, svars>>
    \/ StartRunning("rx") /\ UNCHANGED <<rvars, svars>>

SpecFifo == Init /\ [][JNext]_vars

\* write, lines 142-145, as a step of JNext: the end of the block that
\* holds the lock
TrimStep == WriteTrim("rx") /\ LogTrim /\ UNCHANGED <<rvars, stats_call>>

\* SpecFifo with the scheduling the code relies on: between taking the
\* lock (line 137) and leaving the with block (line 145) write() makes no
\* blocking call, so a thread that holds the lock goes on to release it
SpecPull == Init /\ [][JNext]_vars /\ WF_vars(TrimStep)

\* the renderer's calls with short chunks, and the name lookup of start()
\* failing after the stream has been started
DNext ==
    \/ \E c \in ShortInputs :
          c.tag = count.writes + 1 /\ WriteCall("rx", c.audio_data) /\ UNCHANGED <<rvars, svars>>
    \/ WriteProcess("rx") /\ UNCHANGED <<rvars, svars>>
    \/ WriteAppend("rx") /\ UNCHANGED <<rvars, svars>>
    \/ WriteTrim("rx") /\ UNCHANGED <<rvars, svars>>
    \/ Callback /\ UNCHANGED <<rvars, svars>>
    \/ StartCall("rx") /\ UNCHANGED <<rvars, svars>>
    \/ StartNested("ui") /\ UNCHANGED <<rvars, svars>>
    \/ \E t \in Threads : StartClear(t) /\ UNCHANGED <<rvars, svars>>
    \/ \E t \in Threads : StartOpen(t) /\ UNCHANGED <<rvars, svars>>
    \/ \E t \in Threads : StartOpenFails(t) /\ UNCHANGED <<rvars, svars>>
    \/ \E t \in Threads : StartStream(t) /\ UNCHANGED <<rvars, svars>>
    \/ \E t \in Threads : StartRunning(t) /\ UNCHANGED <<rvars, svars>>
    \/ \E t \in Threads : StartLookup(t) /\ UNCHANGED <<rvars, svars>>
    \/ \E t \in Threads : StartLookupFails(t) /\ UNCHANGED <<rvars, svars>>
    \/ \E t \in Threads : StopCall(t) /\ UNCHANGED <<rvars, svars>>
    \/ StopNested("ui") /\ UNCHANGED <<rvars, svars>>
    \/ \E t \in Threads : StopStream(t) /\ UNCHANGED <<rvars, svars>>
    \/ \E t \in Threads : StopForget(t) /\ UNCHANGED <<rvars, svars>>
    \/ \E t \in Threads : StopClear(t) /\ UNCHANGED <<rvars, svars>>
    \/ \E t \in Threads : StopLevel(t) /\ UNCHANGED <<rvars, svars>>
    \/ \E d \in DeviceInputs : SetDeviceCall("ui", d) /\ UNCHANGED <<rvars, svars>>
    \/ SetDevice("ui") /\ UNCHANGED <<rvars, svars>>
    \/ \E v \in FineVolumeInputs : SetVolume("ui", v) /\ UNCHANGED <<rvars, svars>>

SpecStreams == Init /\ [][DNext]_vars

\* the client-connected and client-disconnected callbacks that the packet
\* handler has still to invoke, in order
Pending == SelectSeq(fired, LAMBDA e : e.ev \in {"client_connected", "client_disconnected"})

\* the receive thread is in no callback and has none to invoke
Delivered == Pending = <<>> /\ At("rx", "idle")

\* app.py, lines 35 and 47-51: the receiver's client-connected callback
\* calls audio_output.start() on the receive thread
AppConnected ==
    /\ Pending # <<>>
    /\ Head(Pending).ev = "client_connected"
    /\ StartCall("rx")
    /\ fired' = Tail(Pending)
    /\ UNCHANGED <<receiver, rx_thread, now, nrecv, streak, stop_call, recv_since>>

\* app.py, lines 36 and 53-57: the client-disconnected callback calls
\* audio_output.stop() on the receive thread
AppDisconnected ==
    /\ Pending # <<>>
    /\ Head(Pending).ev = "client_disconnected"
    /\ StopCall("rx")
    /\ fired' = Tail(Pending)
    /\ UNCHANGED <<receiver, rx_thread, now, nrecv, streak, stop_call, recv_since>>

\* the application: the receive thread handles packets and starts and
\* stops the renderer from the receiver's callbacks; the UI thread sets the
\* output device (app.py, lines 59-61)
PNext ==
    \/ Start /\ UNCHANGED <<avars, svars>>
    \/ Delivered /\ LoopTest /\ UNCHANGED <<avars, svars>>
    \/ Delivered /\ ReceiveValid(MaxRecvApp, MaxElapsedApp) /\ UNCHANGED <<avars, svars>>
    \/ AppConnected /\ UNCHANGED svars
    \/ AppDisconnected /\ UNCHANGED svars
    \/ StartNested("ui") /\ UNCHANGED <<rvars, svars>>
    \/ \E t \in Threads : StartClear(t) /\ UNCHANGED <<rvars, svars>>
    \/ \E t \in Threads : StartOpen(t) /\ UNCHANGED <<rvars, svars>>
    \/ \E t \in Threads : StartOpenFails(t) /\ UNCHANGED <<rvars, svars>>
    \/ \E t \in Threads : StartStream(t) /\ UNCHANGED <<rvars, svars>>
    \/ \E t \in Threads : StartRunning(t) /\ UNCHANGED <<rvars, svars>>
    \/ StopNested("ui") /\ UNCHANGED <<rvars, svars>>
    \/ \E t \in Threads : StopStream(t) /\ UNCHANGED <<rvars, svars>>
    \/ \E t \in Threads : StopForget(t) /\ UNCHANGED <<rvars, svars>>
    \/ \E t \in Threads : StopClear(t) /\ UNCHANGED <<rvars, svars>>
    \/ \E t \in Threads : StopLevel(t) /\ UNCHANGED <<rvars, svars>>
    \/ \E d \in DeviceInputs : SetDeviceCall("ui", d) /\ UNCHANGED <<rvars, svars>>
    \/ SetDevice("ui") /\ UNCHANGED <<rvars, svars>>

SpecApp == Init /\ [][PNext]_vars

\* no call of a method of AudioOutput is in progress
Quiet == \A t \in Threads : At(t, "idle")

\* short chunks, one call at a time: a method is called only when no other
\* call is in progress; the device's thread pulls at any time
QNext ==
    \/ \E c \in ShortInputs :
          Quiet /\ c.tag = count.writes + 1 /\ WriteCall("rx", c.audio_data) /\ UNCHANGED <<rvars, svars>>
    \/ WriteProcess("rx") /\ UNCHANGED <<rvars, svars>>
    \/ WriteAppend("rx") /\ UNCHANGED <<rvars, svars>>
    \/ WriteTrim("rx") /\ UNCHANGED <<rvars, svars>>
    \/ Callback /\ UNCHANGED <<rvars, svars>>
    \/ Quiet /\ StartCall("rx") /\ UNCHANGED <<rvars, svars>>
    \/ StartNested("ui") /\ UNCHANGED <<rvars, svars>>
    \/ \E t \in Threads : StartClear(t) /\ UNCHANGED <<rvars, svars>>
    \/ \E t \in Threads : StartOpen(t) /\ UNCHANGED <<rvars, svars>>
    \/ \E t \in Threads : StartOpenFails(t) /\ UNCHANGED <<rvars, svars>>
    \/ \E t \in Threads : StartStream(t) /\ UNCHANGED <<rvars, svars>>
    \/ \E t \in Threads : StartRunning(t) /\ UNCHANGED <<rvars, svars>>
    \/ \E t \in Threads : Quiet /\ StopCall(t) /\ UNCHANGED <<rvars, svars>>
    \/ StopNested("ui") /\ UNCHANGED <<rvars, svars>>
    \/ \E t \in Threads : StopStream(t) /\ UNCHANGED <<rvars, svars>>
    \/ \E t \in Threads : StopForget(t) /\ UNCHANGED <<rvars, svars>>
    \/ \E t \in Threads : StopClear(t) /\ UNCHANGED <<rvars, svars>>
    \/ \E t \in Threads : StopLevel(t) /\ UNCHANGED <<rvars, svars>>
    \/ \E d \in DeviceInputs : Quiet /\ SetDeviceCall("ui", d) /\ UNCHANGED <<rvars, svars>>
    \/ SetDevice("ui") /\ UNCHANGED <<rvars, svars>>
    \/ \E v \in FineVolumeInputs : Quiet /\ SetVolume("ui", v) /\ UNCHANGED <<rvars, svars>>

SpecAudioSerial == Init /\ [][QNext]_vars

---------------------------------------------------------------------------
(* Properties of the receiver *)

\* the events of kind ev in a sequence of events
Only(events, ev) == SelectSeq(events, LAMBDA e : e.ev = ev)

\* the gap of a packet sequence number after last_sequence:
\* (sequence - (last_sequence + 1)) mod 2^32
Gap(sequence, last_sequence) == Sub32(sequence, Inc32(last_sequence))

\* the receiver after _handle_packet of the well-formed packet p from addr
After(p, addr) == HandlePacket(receiver, Encode(p), addr, now)

\* C2: while every valid packet of a run from one sender address carries the
\* previous sequence number plus 1 modulo 2^32 (0xFFFFFFFF is followed by
\* 0), packets_lost is 0 after each packet of the run.
C2_GaplessRunLosesNothing ==
    streak.gapless => receiver.packets_lost = 0

\* a gapless run of three packets in one connection that wrapped from
\* 0xFFFFFFFF to 0
C2_Witness ==
    /\ streak.gapless /\ streak.n = 3 /\ streak.seq = <<0, 1>>
    /\ receiver.packets_received = 3
    /\ receiver.packets_lost = 0

\* C3: within one connection, a valid packet whose sequence is
\* (last_sequence + 1 + k) mod 2^32 with 1 <= k < 1000 increases
\* packets_lost by exactly k and sets last_sequence to its sequence.
C3_SmallGapIsCounted ==
    \A p \in ValidInputs, addr \in Addrs :
        LET k == Gap(p.seq, receiver.last_sequence)
        IN  ( /\ receiver.client_address = addr
              /\ receiver.last_sequence # Unset
              /\ k[1] = 0 /\ 1 <= k[2] /\ k[2] < 1000 )
            => LET h == After(p, addr)[1]
               IN  /\ h.packets_lost = receiver.packets_lost + k[2]
                   /\ h.last_sequence = p.seq

\* three packets in one connection, 0xFFFFFFFF then 1 (k = 1) then 1001
\* (k = 999)
C3_Witness ==
    /\ receiver.packets_received = 3
    /\ receiver.packets_lost = 1000
    /\ receiver.last_sequence = <<0, 1001>>
    /\ streak.n = 3

\* C4: within one connection, a valid packet whose gap is 1000 or more
\* leaves packets_lost unchanged and sets last_sequence to its sequence.
C4_LargeJumpIsIgnored ==
    \A p \in ValidInputs, addr \in Addrs :
        LET k == Gap(p.seq, receiver.last_sequence)
        IN  ( /\ receiver.client_address = addr
              /\ receiver.last_sequence # Unset
              /\ (k[1] > 0 \/ k[2] >= 1000) )
            => LET h == After(p, addr)[1]
               IN  /\ h.packets_lost = receiver.packets_lost
                   /\ h.last_sequence = p.seq

\* two packets in one connection, the second one, 1001, not the successor
\* of the first, and nothing counted: the first was 0 (gap 1000),
\* 0xFFFFFFFF (gap 1001) or 1001 (gap 2^32 - 1)
C4_Witness ==
    /\ streak.n = 2 /\ ~streak.gapless
    /\ receiver.packets_received = 2
    /\ receiver.packets_lost = 0
    /\ receiver.last_sequence = <<0, 1001>>

\* C5: a valid packet from an address that is not the current connection's
\* (or with no connection) fires exactly one client-connected event, with
\* the sender's IP address, and leaves packets_lost = 0 and
\* packets_received = 1, whatever the counters were before.
C5_NewAddressStartsAfresh ==
    \A p \in ValidInputs, addr \in Addrs :
        receiver.client_address # addr
        => LET h == After(p, addr)
           IN  /\ Only(h[2], "client_connected") = <<EvConnected(addr[1])>>
               /\ h[1].packets_lost = 0
               /\ h[1].packets_received = 1

\* a packet from A2 has just created a connection, and an AUDIO packet was
\* acknowledged at the same instant: A2 replaced a connection that no
\* timeout had destroyed
C5_Witness ==
    /\ fired = <<EvConnected(A2[1])>>
    /\ receiver.client_address = A2
    /\ receiver.packets_received = 1
    /\ receiver.packets_lost = 0
    /\ receiver.last_ack_time = now
    /\ nrecv >= 2

\* C6: the receive timeout at which an active connection has been silent
\* for more than 5 s fires exactly one client-disconnected event and
\* destroys the connection; every other receive timeout fires nothing and
\* changes nothing; and with no connection, a valid packet from any address
\* creates a connection for it and fires client-connected first.
C6_TimeoutStep ==
    (rx_thread = "recv" /\ now' = now + 1000)
    => IF receiver.client_address # None
          /\ now' - receiver.last_packet_time > 5000
       THEN /\ fired' = <<EvDisconnected>>
            /\ receiver' = [receiver EXCEPT !.client_address = None]
       ELSE /\ fired' = <<>>
            /\ receiver' = receiver

C6_Reconnect ==
    receiver.client_address = None
    => \A p \in ValidInputs, addr \in Addrs :
          LET h == After(p, addr)
          IN  /\ h[2][1] = EvConnected(addr[1])
              /\ p.type # DISCONNECT => h[1].client_address = addr

C6_SilenceDisconnectsOnce ==
    [][C6_TimeoutStep]_rvars /\ []C6_Reconnect

\* A1 connected with a packet that was acknowledged (so it was no
\* DISCONNECT), the connection was destroyed, and the second datagram, again
\* from A1, has just fired client-connected
C6_Witness ==
    /\ nrecv = 2 /\ streak.n = 2 /\ streak.addr = A1
    /\ receiver.ack_sequence = <<0, 1>>
    /\ fired = <<EvConnected(A1[1])>>
    /\ receiver.client_address = A1
    /\ now - StartTime >= 6000

\* datagrams shorter than the header or with a wrong magic: every proper
\* prefix of a well-formed packet up to 7 bytes, and every well-formed
\* packet with one magic byte changed
BadDatagrams ==
    { Slice(v, 0, n) : v \in ValidPackets, n \in 0..7 }
    \cup { [v EXCEPT ![1] = 0] : v \in ValidPackets }
    \cup { [v EXCEPT ![2] = 78] : v \in ValidPackets }
    \cup Malformed

\* C7: a datagram shorter than 8 bytes or with a wrong magic changes no
\* attribute of the receiver and fires nothing (no event, no audio, no ACK),
\* whatever its sender address.
C7_MalformedIsDropped ==
    \A data \in BadDatagrams, addr \in Addrs :
        HandlePacket(receiver, data, addr, now) = <<receiver, <<>>>>

\* two datagrams were received with no timeout, a connection exists that
\* counted one packet, and the handler that ran last fired nothing: the
\* second datagram was malformed
C7_Witness ==
    /\ nrecv = 2 /\ now = StartTime /\ rx_thread = "loop"
    /\ receiver.client_address # None
    /\ receiver.packets_received = 1
    /\ fired = <<>>

\* C8 as claimed: a step of the receive thread (a packet handler or a
\* receive timeout) that destroys a connection fires client-disconnected
\* exactly once, one that fires client-disconnected leaves no connection,
\* and one that starts with no connection present fires no
\* client-disconnected at all.
C8_Step ==
    (rx_thread = "recv" /\ rx_thread' = "loop")
    => LET n == Len(Only(fired', "client_disconnected"))
       IN  /\ n <= 1
           /\ n = 1 => receiver'.client_address = None
           /\ (receiver.client_address # None /\ receiver'.client_address = None)
              => n = 1
           /\ receiver.client_address = None => n = 0

C8_DisconnectOncePerConnection == [][C8_Step]_rvars

\* the payloads of the sink's packets: none, one byte, two bytes, and
\* bytes that look like a header
SinkPayloads == { <<>>, <<7>>, <<16, 39>>, <<87, 77, 1, 0, 0, 0, 0, 5>> }

SinkPackets ==
    { [type |-> t, seq |-> q, payload |-> b] :
        t \in {AUDIO, KEEPALIVE, DISCONNECT, ACK}, q \in SeqInputs, b \in SinkPayloads }

\* C15: the audio-data sink is invoked exactly once for each valid AUDIO
\* packet with a non-empty payload, with exactly the bytes after the 8-byte
\* header; it is never invoked for an AUDIO packet with empty payload, for a
\* KEEPALIVE, DISCONNECT or ACK packet, or for a malformed datagram.
C15_SinkGetsThePayload ==
    /\ \A p \in SinkPackets, addr \in Addrs :
          LET sunk == Only(After(p, addr)[2], "audio_data")
          IN  IF p.type = AUDIO /\ p.payload # <<>>
              THEN sunk = <<EvAudio(p.payload)>>
              ELSE sunk = <<>>
    /\ \A data \in BadDatagrams, addr \in Addrs :
          Only(HandlePacket(receiver, data, addr, now)[2], "audio_data") = <<>>
    /\ Len(Only(fired, "audio_data")) <= 1

\* the second packet of a client, an AUDIO packet with payload, was handed
\* to the sink and to nothing else
C15_Witness ==
    /\ fired = <<EvAudio(<<16, 39>>)>>
    /\ receiver.packets_received = 2
    /\ rx_thread = "loop"

\* stop() has closed the socket of a started receiver and set it to None
Released == rx_thread # "none" /\ receiver.socket = "none"

\* C18: stop() is idempotent and releases the socket only after the receive
\* thread has finished: the socket is closed only when the thread is done;
\* once stop() has closed the socket and set it to None the receive thread
\* is not inside recvfrom or a packet handler and takes no step that calls
\* recvfrom or ends a handler; and a stop() on a receiver already stopped
\* changes nothing.
C18_Step ==
    /\ (receiver.socket = "open" /\ receiver'.socket = "closed")
       => rx_thread = "done"
    /\ Released
       => /\ rx_thread \notin {"wait", "handle"}
          /\ rx_thread \in {"recv", "wait", "handle"} => rx_thread' = rx_thread
    /\ (stop_call' # stop_call /\ Released /\ ~receiver.running)
       => receiver' = receiver

C18_StopWaitsForTheThread == [][C18_Step]_vars

\* the ACK datagrams among the events
Acks(events) == Only(events, "sendto")

\* C22: on a receiver that is listening, every valid KEEPALIVE packet
\* causes exactly one ACK to be sent, to the sender's address and carrying
\* the outgoing counter, and leaves packets_lost as it was, whatever its
\* sequence number.
C22_KeepaliveIsAckedAndNotCounted ==
    receiver.socket = "open"
    => \A p \in ValidInputs, addr \in Addrs :
          p.type = KEEPALIVE
          => LET h == After(p, addr)
             IN  /\ Acks(h[2]) = <<EvSendto(MAGIC \o <<1, ACK>> \o PackU32(receiver.ack_sequence),
                                           addr)>>
                 /\ h[1].packets_lost = receiver.packets_lost

\* the attributes that a dropped datagram must leave alone
Connection(r) ==
    <<r.client_address, r.last_sequence, r.packets_received, r.packets_lost,
      r.last_packet_time>>

RECURSIVE AfterAll(_, _, _, _)
AfterAll(r, packets, addr, t) ==
    IF packets = <<>> THEN r
    ELSE AfterAll(HandlePacket(r, Encode(Head(packets)), addr, t)[1], Tail(packets), addr, t)

\* an AUDIO or KEEPALIVE packet with sequence number q
Numbered(type, q) == [type |-> type, seq |-> q, payload |-> <<>>]

\* C24: within a connection whose last packet had sequence number s, when
\* the packets s+1, s+2, s+3 all arrive but s+1 and s+2 in swapped order,
\* packets_lost is the same after all of them as before.
C24_ReorderingIsNotLoss ==
    \A addr \in Addrs, type \in {AUDIO, KEEPALIVE} :
        (receiver.client_address = addr /\ receiver.last_sequence # Unset)
        => LET s1 == Inc32(receiver.last_sequence)
               s2 == Inc32(s1)
               s3 == Inc32(s2)
               swapped == <<Numbered(type, s2), Numbered(type, s1), Numbered(type, s3)>>
           IN  AfterAll(receiver, swapped, addr, now).packets_lost
                   = receiver.packets_lost

\* the ms between two packets of C28
AckGaps == {0, ACK_INTERVAL_MS, ACK_INTERVAL_MS + 1}

\* C28: when an ACK has just been sent to an address, in answer to an AUDIO
\* or to a KEEPALIVE packet, a valid AUDIO packet from that address that
\* arrives d ms later is answered with an ACK if and only if d > 500, with
\* or without payload.
C28_AudioAckEvery500ms ==
    receiver.socket = "open"
    => \A first \in ValidInputs, addr \in Addrs, d \in AckGaps, payload \in Payloads :
          LET h1 == After(first, addr)
              audio == [type |-> AUDIO, seq |-> Inc32(first.seq), payload |-> payload]
              h2 == HandlePacket(h1[1], Encode(audio), addr, now + d)
          IN  (first.type \in {AUDIO, KEEPALIVE} /\ Acks(h1[2]) # <<>>)
              => (Acks(h2[2]) # <<>>) = (d > ACK_INTERVAL_MS)

\* C25: when recvfrom raises a socket error while running is true and the
\* socket is open, the receive loop does not end: the thread goes back to
\* the loop test and on to the next receive.
C25_Step ==
    (RecvError /\ receiver.running) => rx_thread' = "loop"

C25_SocketErrorKeepsTheLoop == [][C25_Step]_vars

\* C26: a start() whose bind fails raises the error to its caller and
\* leaves the receiver stopped, with no receive thread; the unbound socket
\* stays as it is (no retry) until a later start(), which binds again and
\* starts the thread, or a later stop(), which closes it; when that stop()
\* returns there is no socket.
C26_Step ==
    /\ StartBindFails
       => /\ fired' = <<EvRaised("OSError")>>
          /\ ~receiver'.running
          /\ rx_thread' = "none"
    /\ receiver.socket = "unbound"
       => /\ ~receiver.running
          /\ rx_thread = "none"
          /\ \/ receiver' = receiver
             \/ /\ receiver' = [receiver EXCEPT !.socket = "open", !.running = TRUE]
                /\ rx_thread' = "loop"
             \/ /\ stop_call.pc = "close"
                /\ receiver' = [receiver EXCEPT !.socket = "closed"]
                /\ stop_call'.pc = "forget"
    /\ (stop_call.pc # "idle" /\ stop_call'.pc = "idle")
       => receiver'.socket = "none" /\ ~receiver'.running

C26_BindFailureLeavesItStopped == [][C26_Step]_vars

\* a stop() has returned after a start() whose bind failed, and has
\* released the socket
C26_Witness ==
    /\ fired = <<EvRaised("OSError")>>
    /\ receiver.socket = "none"
    /\ stop_call = NotStopping
    /\ rx_thread = "none"

\* x + n modulo 2^32 for an n below 2^16, on <<hi, lo>>
Plus32(x, n) ==
    <<(x[1] + ((x[2] + n) \div W16)) % W16, (x[2] + n) % W16>>

\* C32: every ACK sent is 8 bytes, the magic, version 1, type ACK and the
\* outgoing counter, with no payload; the i-th ACK of a step carries the
\* counter plus i - 1, and after the step the counter is the old one plus
\* the number of ACKs, modulo 2^32, whatever the inbound sequence numbers
\* are and whether a connection was created or destroyed in the step.
C32_Step ==
    LET acks == IF rx_thread = "recv" THEN Acks(fired') ELSE <<>>
    IN  /\ \A i \in DOMAIN acks :
              /\ Len(acks[i].data) = 8
              /\ SubSeq(acks[i].data, 1, 4) = <<87, 77, 1, 3>>
              /\ UnpackU32(SubSeq(acks[i].data, 5, 8)) = Plus32(receiver.ack_sequence, i - 1)
        /\ receiver'.ack_sequence = Plus32(receiver.ack_sequence, Len(acks))

C32_AckCounter == [][C32_Step]_vars

\* the ACK with counter 0xFFFFFFFF was sent in the step that created a
\* connection, and the counter is 0 after it
C32_Witness ==
    /\ Only(fired, "client_connected") # <<>>
    /\ Acks(fired) = <<EvSendto(<<87, 77, 1, 3, 255, 255, 255, 255>>, A1)>>
    /\ receiver.ack_sequence = <<0, 0>>

\* C33: while the receiver is running, a connection for which no valid
\* packet has been accepted for more than 5 s is destroyed, whatever
\* datagrams that are too short or have a wrong magic arrive in the
\* meantime.  In finite runs: by the time the receive loop has gone through
\* a whole receive timeout after the 5 s, that is whenever the thread is at
\* the loop test with a connection, the silence is at most 5 s + 1 s.
C33_SilenceDisconnectsDespiteNoise ==
    (receiver.running /\ rx_thread = "loop" /\ receiver.client_address # None)
    => now - receiver.last_packet_time <= CLIENT_TIMEOUT_MS + RECV_TIMEOUT_MS

\* the step handles a valid packet (the observer of the runs has seen it)
IsValidPacket == rx_thread = "recv" /\ nrecv' = nrecv + 1 /\ streak' # streak

\* C34: a valid packet, of any type, from the connection's address adds
\* exactly 1 to packets_received and does not decrease packets_lost; a
\* valid packet from another address creates a connection, fires
\* client-connected and leaves the counters at their start values, 0 lost
\* and this one packet received; and no other step (a dropped datagram, a
\* receive timeout, the destruction of the connection by silence, start())
\* changes either counter.
C34_Step ==
    IF IsValidPacket
    THEN IF streak'.addr = receiver.client_address
         THEN /\ receiver'.packets_received = receiver.packets_received + 1
              /\ receiver'.packets_lost >= receiver.packets_lost
              /\ Only(fired', "client_connected") = <<>>
         ELSE /\ receiver'.packets_received = 1
              /\ receiver'.packets_lost = 0
              /\ Only(fired', "client_connected") = <<EvConnected(streak'.addr[1])>>
    ELSE /\ receiver'.packets_received = receiver.packets_received
         /\ receiver'.packets_lost = receiver.packets_lost

C34_CountersFollowTheConnection == [][C34_Step]_vars

\* the third packet of a connection, a DISCONNECT, was counted after a gap
\* of 999 had been, and has destroyed the connection: the counters stay
C34_Witness ==
    /\ streak.n = 3
    /\ receiver.packets_received = 3
    /\ receiver.packets_lost = 999
    /\ fired = <<EvDisconnected>>
    /\ receiver.client_address = None

\* the client-connected and client-disconnected events among the events
Lifecycle(events) ==
    SelectSeq(events, LAMBDA e : e.ev \in {"client_connected", "client_disconnected"})

\* C35: a valid packet from a new address that arrives while a connection
\* exists fires client-connected for the new address and, before it, no
\* client-disconnected for the connection it replaces: the first lifecycle
\* event after the replaced connection's client-connected is another
\* client-connected.  Unless the packet is a DISCONNECT, it is the only
\* lifecycle event, and the connection is the new address's.
C35_ReplacedWithoutDisconnect ==
    \A p \in ValidInputs, addr \in Addrs :
        (receiver.client_address # None /\ receiver.client_address # addr)
        => LET h == After(p, addr)
               life == Lifecycle(h[2])
           IN  /\ life # <<>>
               /\ life[1] = EvConnected(addr[1])
               /\ p.type # DISCONNECT
                  => life = <<EvConnected(addr[1])>> /\ h[1].client_address = addr

\* A1 has just replaced the connection of A2: both packets were
\* acknowledged at the same instant, so that neither a DISCONNECT nor a
\* timeout had destroyed the connection of A2
C35_Witness ==
    /\ nrecv = 2 /\ streak.n = 1 /\ streak.addr = A1
    /\ receiver.ack_sequence = <<0, 2>>
    /\ now = StartTime
    /\ receiver.client_address = A1
    /\ Lifecycle(fired) = <<EvConnected(A1[1])>>

\* C36: a valid DISCONNECT packet from an address that is not the
\* connection's, also with no connection, fires client-connected for the
\* sender and then client-disconnected, and leaves no connection: the
\* connection of another client is gone.
C36_ForeignDisconnect ==
    \A p \in ValidInputs, addr \in Addrs :
        (p.type = DISCONNECT /\ receiver.client_address # addr)
        => LET h == After(p, addr)
           IN  /\ h[2] = <<EvConnected(addr[1]), EvDisconnected>>
               /\ h[1].client_address = None

\* the connection of A1, whose packet was acknowledged, was ended by a
\* DISCONNECT packet from A2 at the same instant
C36_Witness ==
    /\ nrecv = 2 /\ streak.n = 1 /\ streak.addr = A2
    /\ receiver.ack_sequence = <<0, 1>>
    /\ now = StartTime
    /\ fired = <<EvConnected(A2[1]), EvDisconnected>>
    /\ receiver.client_address = None

\* "up" when a connection exists, "down" when none does
Link(r) == IF r.client_address # None THEN "up" ELSE "down"

\* the link after the lifecycle events, from the link before them; "bad"
\* when a client-disconnected comes while the link is down
RECURSIVE Lived(_, _)
Lived(life, link) ==
    IF life = <<>> THEN link
    ELSE IF link = "bad" THEN "bad"
    ELSE IF Head(life).ev = "client_connected" THEN Lived(Tail(life), "up")
    ELSE IF link = "up" THEN Lived(Tail(life), "down") ELSE "bad"

\* C37: in the trace of the receiver's events every client-disconnected
\* comes when the last lifecycle event before it was a client-connected,
\* and the connected of get_stats (client_address is not None) is true
\* exactly when the last lifecycle event was a client-connected: every step
\* starts with connected equal to that, its events keep the order, and it
\* ends with connected equal to that again; a step without lifecycle events
\* leaves connected as it is.
C37_Step ==
    LET life == IF fired' # fired \/ rx_thread = "recv" THEN Lifecycle(fired') ELSE <<>>
    IN  Lived(life, Link(receiver)) = Link(receiver')

C37_DisconnectFollowsConnect == [][C37_Step]_vars

\* the connection made by the only packet received was destroyed by the
\* receive timeout after more than 5 s of silence
C37_Witness ==
    /\ nrecv = 1
    /\ fired = <<EvDisconnected>>
    /\ receiver.client_address = None
    /\ receiver.packets_received = 1
    /\ now - receiver.last_packet_time > CLIENT_TIMEOUT_MS

\* the dict that get_stats returns is the point-in-time copy of the
\* connection state v
CopyOf(d, v) ==
    /\ d.connected = (v.client_address # None)
    /\ d.client_ip = IF v.client_address # None THEN v.client_address[1] ELSE "None"
    /\ d.packets_received = v.packets_received
    /\ d.packets_lost = v.packets_lost
    /\ d.numerator = v.packets_lost
    /\ d.denominator = AtLeastOne(v.packets_received + v.packets_lost)

\* C21: a get_stats() call made while the receive thread processes packets
\* and disconnects returns without error, connected is true exactly when
\* the reported client address is not null, and what it reports (address,
\* counters, loss rate) is a copy of one state that the connection was in
\* during the call.
C21_Step ==
    (stats_call.pc # "idle" /\ stats_call'.pc = "idle")
    => /\ stats_call'.result = "dict"
       /\ stats_call'.connected = (stats_call'.client_ip # "None")
       /\ \E v \in stats_call'.seen : CopyOf(stats_call', v)

C21_StatsAreASnapshot == [][C21_Step]_vars

---------------------------------------------------------------------------
(* Properties of the renderer *)

\* C1: in every reachable state, under any interleaving of write, the pull
\* callback, start and stop, the jitter buffer holds at most 7200 samples
\* whenever the buffer lock is free.
C1_BufferCeiling ==
    buffer_lock = "free" => Len(audio_output.buffer) <= 7200

\* the buffer is full, the lock is free, and more than the ceiling has been
\* written since the buffer was last cleared
C1_Witness ==
    /\ buffer_lock = "free"
    /\ Len(audio_output.buffer) = 7200
    /\ Len(written) > 7200
    /\ calls["ui"].pc # "idle"

\* C9: after any sequence of writes to a running renderer with no pull in
\* between, the buffer is the last min(7200, total) samples of the
\* concatenation, in write order, of the volume-scaled chunks written: the
\* overflow is cut from the front only, also when one chunk alone is longer
\* than 7200 samples.
C9_NewestSamplesAreKept ==
    (buffer_lock = "free" /\ ~pulled)
    => LET total == Len(written)
           kept == IF total < 7200 THEN total ELSE 7200
       IN  /\ Len(audio_output.buffer) = kept
           /\ audio_output.buffer = SubSeq(written, total - kept + 1, total)

\* two chunks of 5200 samples were written at volume 2.0 with no pull: the
\* buffer starts with sample 3201 of the 10400 written
C9_Witness ==
    /\ buffer_lock = "free"
    /\ ~pulled
    /\ audio_output.running
    /\ audio_output.volume = 200
    /\ count.writes = 2
    /\ Len(written) = 10400
    /\ Len(audio_output.buffer) = 7200
    /\ audio_output.buffer[1] = written[3201]
    /\ audio_output.buffer[1] # written[1]

\* C10: a pull on a buffer of at least `frames` samples outputs exactly the
\* first `frames` buffered samples in order and leaves exactly the remaining
\* samples in order.
C10_PullStep ==
    (count'.pulls = count.pulls + 1 /\ Len(audio_output.buffer) >= BUFFER_FRAMES)
    => /\ Len(outdata') = BUFFER_FRAMES
       /\ outdata' \o audio_output'.buffer = audio_output.buffer

C10_PullTakesTheHead == [][C10_PullStep]_vars

\* 2 * frames samples were written to the empty running renderer and pulled
\* once: the first half is out and the second half is buffered
C10_Witness ==
    /\ count.writes = 1
    /\ count.pulls = 1
    /\ audio_output.running
    /\ Len(outdata) = BUFFER_FRAMES
    /\ Len(audio_output.buffer) = BUFFER_FRAMES
    /\ \E c \in ChunkInputs :
          /\ c.tag = 1
          /\ Len(c.audio_data) = 4 * BUFFER_FRAMES
          /\ outdata \o audio_output.buffer
                 = ApplyVolume(FromBuffer(c.audio_data).samples, 100)

\* a step of the pull callback
IsPull == count'.pulls = count.pulls + 1

\* C11: a pull on a buffer of n samples, 0 < n < frames, outputs those n
\* samples followed by frames - n copies of the last buffered sample (frames
\* samples in all), leaves the buffer empty and leaves the level unchanged.
C11_PullStep ==
    LET n == Len(audio_output.buffer)
    IN  (IsPull /\ 0 < n /\ n < BUFFER_FRAMES)
        => /\ Len(outdata') = BUFFER_FRAMES
           /\ \A k \in 1..n : outdata'[k] = audio_output.buffer[k]
           /\ \A k \in (n + 1)..BUFFER_FRAMES : outdata'[k] = audio_output.buffer[n]
           /\ audio_output'.buffer = <<>>
           /\ audio_output'.current_level = audio_output.current_level

C11_ShortPullIsPadded == [][C11_PullStep]_vars

\* two different samples were written and pulled: the second one fills the
\* rest of the output, the buffer is empty and the level of the chunk stands
C11_Witness ==
    /\ count.writes = 1
    /\ count.pulls = 1
    /\ Len(outdata) = BUFFER_FRAMES
    /\ outdata[1] # outdata[2]
    /\ \A k \in 2..BUFFER_FRAMES : outdata[k] = outdata[2]
    /\ audio_output.buffer = <<>>
    /\ audio_output.current_level = LEVEL_REFERENCE
    /\ calls["rx"].pc = "idle"

\* C12: a pull on the empty buffer outputs `frames` zero samples, sets the
\* level to 0 and leaves the buffer empty.
C12_PullStep ==
    (IsPull /\ audio_output.buffer = <<>>)
    => /\ Len(outdata') = BUFFER_FRAMES
       /\ \A k \in 1..BUFFER_FRAMES : outdata'[k] = 0
       /\ audio_output'.current_level = 0
       /\ audio_output'.buffer = <<>>

C12_EmptyPullIsSilence == [][C12_PullStep]_vars

\* write has set the level of a two-sample chunk at volume 1.0 and has not
\* appended it yet, and nothing was stopped; a pull found the buffer empty:
\* the output is silence and the level is 0
C12_Witness ==
    /\ calls["rx"].pc = "w_append"
    /\ Len(calls["rx"].samples) = 2
    /\ audio_output.volume = 100
    /\ count.control = 1
    /\ count.pulls >= 1
    /\ audio_output.buffer = <<>>
    /\ Len(outdata) = BUFFER_FRAMES
    /\ \A k \in 1..BUFFER_FRAMES : outdata[k] = 0
    /\ audio_output.current_level = 0

\* the step of write that converts and scales, and the step that appends
IsProcess == calls["rx"].pc = "w_process" /\ calls'["rx"].pc = "w_append"
IsAppend == calls["rx"].pc = "w_append" /\ calls'["rx"].pc = "w_trim"

\* 2 * s saturated to the 16-bit signed range
Twice(s) == IF 2 * s > 32767 THEN 32767 ELSE IF 2 * s < -32768 THEN -32768 ELSE 2 * s

Sign(x) == IF x > 0 THEN 1 ELSE IF x < 0 THEN -1 ELSE 0

\* C13: with volume 0.0 every sample appended by write is 0 whatever the
\* input; with volume 2.0 every input sample s is stored as 2 * s saturated
\* to [-32768, 32767], never wrapped, so that a stored sample has the sign
\* of its input.
C13_WriteStep ==
    /\ IsProcess =>
          LET input == FromBuffer(calls["rx"].audio_data).samples
              scaled == calls'["rx"].samples
          IN  /\ Len(scaled) = Len(input)
              /\ audio_output.volume = 0 => \A k \in DOMAIN scaled : scaled[k] = 0
              /\ audio_output.volume = 200 =>
                    \A k \in DOMAIN scaled : /\ scaled[k] = Twice(input[k])
                                             /\ Sign(scaled[k]) = Sign(input[k])
    /\ IsAppend => audio_output'.buffer = audio_output.buffer \o calls["rx"].samples

C13_VolumeSaturates == [][C13_WriteStep]_vars

\* a chunk of two samples below minus half-scale was scaled at volume 2.0 to
\* two samples of -32768 and appended
C13_Witness ==
    /\ calls["rx"].pc = "w_trim"
    /\ Len(calls["rx"].audio_data) = 4
    /\ FromBuffer(calls["rx"].audio_data).samples[1] < -16384
    /\ calls["rx"].samples = <<-32768, -32768>>
    /\ audio_output.volume = 200
    /\ LastN(audio_output.buffer, 2) = <<-32768, -32768>>

\* the volumes the level of a chunk is compared at, in hundredths
LevelVolumes == {0, 25, 50, 75, 100, 150, 200}

\* C14: for a fixed chunk written to a running renderer, the level that
\* get_level() reports after set_volume(v) and write is the clamped,
\* normalised RMS of the chunk scaled by v: in ten-thousandths, the largest
\* integer up to 10000 whose square is at most the mean square of the
\* scaled samples.  It lies in [0, 1] and does not decrease when v grows
\* over [0, 2].
C14_WriteStep ==
    IsProcess =>
        LET audio_data == calls["rx"].audio_data
            v == audio_output.volume
            scaled == calls'["rx"].samples
            mean == MeanOf(SumSquares(scaled, 1, Len(scaled)), Len(scaled))
            level == audio_output'.current_level
        IN  /\ scaled = ApplyVolume(FromBuffer(audio_data).samples, v)
            /\ 0 <= level /\ level <= 10000
            /\ level * level <= mean
            /\ level < 10000 => (level + 1) * (level + 1) > mean
            /\ \A u \in LevelVolumes :
                  /\ u <= v => Process(audio_data, u).level <= level
                  /\ u >= v => Process(audio_data, u).level >= level

C14_LevelFollowsVolume == [][C14_WriteStep]_vars

\* set_volume(0.25) and then the write of two samples near 20030: the level
\* is that of the samples near 5007, between 0 and the clamp
C14_Witness ==
    /\ calls["rx"].pc = "w_append"
    /\ audio_output.volume = 25
    /\ Len(calls["rx"].samples) = 2
    /\ FromBuffer(calls["rx"].audio_data).samples[1] = 20024
    /\ calls["rx"].samples[1] = 5006
    /\ audio_output.current_level = 5007

\* C16: a write called while the renderer is not running, or with empty
\* input, returns at once and leaves the buffer, the level and the volume
\* (the whole renderer) unchanged; a write goes on to process its input only
\* on a running renderer and with input that is not empty.
C16_WriteStep ==
    /\ \A c \in ShortInputs :
          (WriteCall("rx", c.audio_data)
              /\ (~audio_output.running \/ Len(c.audio_data) = 0))
          => /\ calls' = calls
             /\ audio_output' = audio_output
    /\ (count'.writes = count.writes + 1 /\ calls'["rx"].pc # "idle")
       => /\ audio_output.running
          /\ Len(calls'["rx"].audio_data) > 0
          /\ audio_output' = audio_output

C16_IdleWriteIsNoOp == [][C16_WriteStep]_vars

\* the renderer was started and two writes returned at once, with input
\* that was empty or before running was set: nothing is buffered, the level
\* is 0 and the stream is active
C16_Witness ==
    /\ count = [writes |-> 2, control |-> 1, pulls |-> 0, errors |-> 0]
    /\ audio_output.running
    /\ Active # {}
    /\ calls["rx"].pc = "idle"
    /\ audio_output.buffer = <<>>
    /\ audio_output.current_level = 0
    /\ audio_output.volume = 100

\* C17: when the processing of the samples in write fails (the byte string
\* has odd length), the call returns to its caller with the buffer, the
\* level and the running flag exactly as before, and a later well-formed
\* write is processed and appended as usual.
C17_WriteStep ==
    /\ (calls["rx"].pc = "w_process" /\ calls'["rx"] # calls["rx"]
            /\ Len(calls["rx"].audio_data) % 2 = 1)
       => /\ calls'["rx"] = Idle
          /\ audio_output' = audio_output
          /\ audio_output'.running = audio_output.running
          /\ buffer_lock' = buffer_lock
          /\ count'.errors = count.errors + 1
    /\ count.errors > 0
       => /\ \A c \in ShortInputs :
                (WriteCall("rx", c.audio_data) /\ audio_output.running
                    /\ Len(c.audio_data) > 0)
                => calls'["rx"].pc = "w_process"
          /\ (IsProcess /\ Len(calls["rx"].audio_data) % 2 = 0)
             => calls'["rx"].samples =
                    ApplyVolume(FromBuffer(calls["rx"].audio_data).samples,
                                audio_output.volume)
          /\ IsAppend
             => audio_output'.buffer = audio_output.buffer \o calls["rx"].samples

C17_WriteErrorIsContained == [][C17_WriteStep]_vars

\* after start, the first write (odd length) failed and the second write
\* (two samples) is in the buffer of the running renderer
C17_Witness ==
    /\ count = [writes |-> 2, control |-> 1, pulls |-> 0, errors |-> 1]
    /\ audio_output.running
    /\ calls["rx"].pc = "idle"
    /\ audio_output.buffer = FromBuffer(ChunkData(4, 2)).samples
    /\ audio_output.current_level = LevelOf(audio_output.buffer)

\* thread t returns from start(): at once on a running renderer, after a
\* failure, or after setting running
StartReturns(t) ==
    \/ StartCall(t) /\ audio_output.running
    \/ StartNested(t) /\ audio_output.running
    \/ StartOpenFails(t)
    \/ StartStream(t) /\ audio_output.stream = NoStream
    \/ StartRunning(t)

\* thread t returns from start() because opening or starting the stream
\* failed
StartFails(t) ==
    \/ StartOpenFails(t)
    \/ StartStream(t) /\ audio_output.stream = NoStream

\* C19: start() leaves the buffer empty; stop() leaves the buffer empty, the
\* level 0 and running false; and a start() that fails to open or start the
\* stream returns with running false and no active stream, so that the
\* writes that follow are no-ops.
C19_Step ==
    \A t \in Threads :
        /\ StartReturns(t) => audio_output'.buffer = <<>>
        /\ StopLevel(t)
           => /\ audio_output'.buffer = <<>>
              /\ audio_output'.current_level = 0
              /\ ~audio_output'.running
        /\ StartFails(t)
           => /\ ~audio_output'.running
              /\ \A i \in DOMAIN streams' : streams'[i].state # "active"
              /\ calls'[t].pc \in {"idle"}

C19_StartAndStopLeaveItClean == [][C19_Step]_vars

\* a set_output_device call has returned, no other is in progress, and the
\* renderer is running: self.stream is an active stream on the device set
DeviceBound ==
    (At("ui", "idle") /\ audio_output.output_device # AudioInit.output_device
        /\ audio_output.running)
    => /\ audio_output.stream # NoStream
       /\ streams[audio_output.stream].state = "active"
       /\ streams[audio_output.stream].device = audio_output.output_device

\* C20: after set_output_device(id) has returned, whenever the renderer is
\* running its stream is bound to device id, whatever start() and stop() calls
\* of the receive thread interleave with it; and a set_output_device on a
\* renderer that was not running records the id and creates no stream.
C20_Step ==
    /\ DeviceBound'
    /\ (SetDevice("ui") /\ ~calls["ui"].was_running)
       => /\ audio_output' = [audio_output EXCEPT !.output_device = calls["ui"].device_id]
          /\ streams' = streams
          /\ calls'["ui"] = Idle

C20_RunningOnTheChosenDevice == [][C20_Step]_vars

\* C27: set_volume(v) stores min(2, max(0, v)), so that the stored volume
\* is in [0, 2] in every state; it leaves the buffer and the level as they
\* are; the volume stays as stored until the next set_volume, and a write
\* scales every one of its samples by the stored volume, clipped to 16 bits.
C27_Step ==
    /\ 0 <= audio_output'.volume /\ audio_output'.volume <= 200
    /\ \A v \in FineVolumeInputs :
          SetVolume("ui", v)
          => audio_output' = [audio_output EXCEPT
                 !.volume = IF v < 0 THEN 0 ELSE IF v > 200 THEN 200 ELSE v]
    /\ audio_output'.volume # audio_output.volume
       => \E v \in FineVolumeInputs : SetVolume("ui", v)
    /\ IsProcess
       => LET input == FromBuffer(calls["rx"].audio_data).samples
              scaled == calls'["rx"].samples
          IN  /\ Len(scaled) = Len(input)
              /\ \A k \in DOMAIN input :
                    scaled[k] = Clip(Trunc100(input[k] * audio_output.volume))

C27_VolumeIsClampedAndApplied == [][C27_Step]_vars

\* after a first chunk was written at volume 1.0, set_volume(3.0) stored
\* 2.0 and left the chunk in the buffer as it was, and the next write has
\* scaled both of its samples by 2.0
C27_Witness ==
    /\ audio_output.volume = 200
    /\ audio_output.buffer = FromBuffer(ChunkData(4, 1)).samples
    /\ audio_output.current_level = LevelOf(ApplyVolume(FromBuffer(ChunkData(4, 2)).samples, 200))
    /\ calls["rx"].pc = "w_append"
    /\ calls["rx"].audio_data = ChunkData(4, 2)
    /\ calls["rx"].samples = <<-32768, -32768>>

\* C29: no pull runs between the level update of a write and its append:
\* while a write has set the level of its chunk and has not yet appended
\* the chunk's samples, the pull callback does not execute, and so does not
\* reset that level to 0.
C29_Step ==
    IsPull => calls["rx"].pc # "w_append"

C29_WriteIsAtomic == [][C29_Step]_vars

\* the number of samples that left the buffer in the first k entries
RECURSIVE Gone(_, _)
Gone(left, k) == IF k = 0 THEN 0 ELSE Gone(left, k - 1) + left[k].n

\* the written samples that the pulls among the first k entries took, in
\* write order, when the entries are consecutive stretches of the written
\* samples
RECURSIVE Taken(_, _, _)
Taken(w, left, k) ==
    IF k = 0 THEN <<>>
    ELSE IF left[k].by = "pull"
         THEN Taken(w, left, k - 1) \o SubSeq(w, Gone(left, k - 1) + 1, Gone(left, k))
         ELSE Taken(w, left, k - 1)

\* C30: with one writer and the pull callback on a running renderer, the
\* written samples, in write order, fall into consecutive stretches, each
\* taken off the buffer by one pull or by one trim, followed by the samples
\* still in the buffer.  The samples that the pulls emitted (without
\* padding and silence) are the stretches of the pulls, in order: a
\* subsequence of the written samples, none emitted twice.  A pull takes
\* off what it emits; a trim takes off what is above the ceiling and only
\* that; so the samples never emitted are those trimmed from the front.
C30_BufferIsFifo ==
    LET w == fifo.written
        k == Len(fifo.left)
    IN  /\ Gone(fifo.left, k) + Len(audio_output.buffer) = Len(w)
        /\ audio_output.buffer = SubSeq(w, Gone(fifo.left, k) + 1, Len(w))
        /\ fifo.emitted = Taken(w, fifo.left, k)
        /\ \A i \in 1..k :
              /\ fifo.left[i].n >= 0
              /\ fifo.left[i].n = IF fifo.left[i].by = "trim" /\ fifo.left[i].over < 0
                                  THEN 0 ELSE fifo.left[i].over

\* a chunk of one sample more than the ceiling was written, the trim took
\* its first sample, and a pull emitted the 1024 samples after it
C30_Witness ==
    /\ audio_output.running
    /\ Len(fifo.written) = max_buffer + 1
    /\ fifo.left = << [n |-> 1, by |-> "trim", over |-> 1],
                      [n |-> BUFFER_FRAMES, by |-> "pull", over |-> BUFFER_FRAMES] >>
    /\ fifo.emitted = SubSeq(fifo.written, 2, BUFFER_FRAMES + 1)
    /\ Len(audio_output.buffer) = max_buffer - BUFFER_FRAMES

\* C38: whenever the renderer is not running and every call has returned
\* (no write, and no start, stop or set_output_device, is in progress), the
\* buffer is empty and the level is 0, also after a write that passed its
\* running test before a stop() on the other thread.
C38_StoppedMeansEmpty ==
    (~audio_output.running /\ Quiet)
    => audio_output.buffer = <<>> /\ audio_output.current_level = 0

\* the streams that were created and not closed
Open == { i \in DOMAIN streams : streams[i].state # "closed" }

\* C39: whenever every call has returned, at most one stream is open; every
\* stream that was started is the one self.stream refers to; and running is
\* true exactly when self.stream refers to a started stream.
C39_OneStreamAndRunning ==
    Quiet
    => /\ Cardinality(Open) <= 1
       /\ \A i \in Active : audio_output.stream = i
       /\ audio_output.running
              = (audio_output.stream # NoStream /\ audio_output.stream \in Active)

\* C40: once every call has returned and the receive thread has invoked
\* its callbacks, the renderer is running only if the receiver has a
\* connection, also when set_output_device on the UI thread overlaps with
\* the disconnect that the receive thread handles.
C40_RunningOnlyWhileConnected ==
    (Quiet /\ Pending = <<>> /\ audio_output.running)
    => receiver.client_address # None

\* C31: the pull callback ends with all frames samples of outdata filled,
\* whatever the buffer holds, the empty buffer included; it is ready to
\* run whenever a stream is active and the lock is free, with no write
\* needed first; and the lock it may wait for is held only by a write that
\* is at its trim, which needs nothing more to run and frees the lock.
C31_PullTerminates ==
    /\ [][IsPull => Len(outdata') = BUFFER_FRAMES]_vars
    /\ []((Active # {} /\ buffer_lock = "free" /\ Calls < MaxCalls) => ENABLED Callback)
    /\ [](buffer_lock # "free" => (At(buffer_lock, "w_trim") /\ ENABLED TrimStep))
    /\ (buffer_lock # "free") ~> (buffer_lock = "free")

\* a pull of the empty buffer has filled outdata with silence, and a write
\* now holds the lock while the stream is active
C31_Witness ==
    /\ buffer_lock = "rx"
    /\ Active # {}
    /\ count.pulls = 1
    /\ outdata = [k \in 1..BUFFER_FRAMES |-> 0]

=============================================================================
